---------------------------- MODULE Spec2Model ----------------------------
(***************************************************************************)
(* Model of the reconciliation core of datamanager8.8.py: the cell         *)
(* normalizer, the header signature extractor, the per-file row            *)
(* deduplication and bucketing of worker_process_files, the entity         *)
(* canonicalizer run_fuzzy_logic, the template-mode joiner                 *)
(* build_master_table and the run lifecycle around them.                   *)
(*                                                                         *)
(* Text is modelled as a sequence of one-character strings, so that        *)
(* str.strip, str.replace, str.lower, startswith and substring tests are   *)
(* computed character by character as Python computes them.               *)
(***************************************************************************)
EXTENDS Integers, Sequences, FiniteSets, TLC

VARIABLES
    \* ---- clean_cell_value applied to a raw cell, then to its own result
    val,        \* the raw cell value handed to clean_cell_value
    out1,       \* clean_cell_value(val)
    out2,       \* clean_cell_value(out1)
    cpc,        \* number of applications made so far (0, 1, 2)
    \* ---- extract_headers applied to a sheet and to a variation of it
    hdrA,       \* the first sheet (its rows of raw cells)
    hdrB,       \* the second sheet: hdrA with one variation applied
    hcount,     \* header_rows handed to extract_headers for both sheets
    kind,       \* which variation made hdrB out of hdrA
    sigA,       \* tuple(extract_headers(hdrA, hcount))
    sigB,       \* tuple(extract_headers(hdrB, hcount))
    spc,        \* "input", "varied", "done"
    \* ---- run_fuzzy_logic applied to a row list, then to its own result
    frows,      \* rows: the list run_fuzzy_logic rewrites in place
    fheaders,   \* headers
    fthr,       \* threshold, in hundredths (0.85 is 85)
    ftarget,    \* target_col_name
    frows0,     \* the rows as they were before the first run
    frows1,     \* the rows as the first run left them
    fvals,      \* unique_vals of the last run, in the order the run used
    fmapping,   \* mapping as the last run left it
    fcount,     \* count of the last run ("Merged <count> records")
    fpc,        \* number of runs made so far (0, 1, 2)
    \* ---- one run of the application (App)
    mode,              \* self.mode: "standard", "normal" or "community"
    skip_rows,         \* self.skip_rows, as safe_int reads it
    is_fuzzy,          \* self.var_fuzzy == "on"
    fuzzy_thresh,      \* self.var_fuzzy_threshold, in hundredths
    fuzzy_col,   \* target_col_name: the stripped self.var_fuzzy_col
    files,             \* the selected files (target_files), in sorted order
    phase,             \* "Idle", "Scanning", "AwaitingNaming", "Finalizing", "Done", "Failed"
    idx,               \* position of the worker's file loop (next file, from 1)
    buckets,           \* buckets, in insertion order
    first_sig_standard,
    tables_by_sheet,   \* community mode: the per-sheet tables, in insertion order
    bucket_data_payload,
    named_buckets,     \* the argument of the pending finalize_export call
    uiQueue,           \* callbacks handed to root.after(0, ...), not yet run
    runBtn,            \* state of the run button: "normal" or "disabled"
    error,             \* what the run reported: "none" or the error's name
    last_warning,      \* the last warning the naming dialog showed
    reads,             \* every load_workbook call so far: <<step, file position>>
    open_wbs,          \* workbooks opened and not closed
    rendered,          \* the tables handed to render_dashboard_html
    report_written,    \* whether the report file was written
    \* ---- the row loops applied to one sheet
    rws,        \* the sheet: its rows, the header row first
    rkind,      \* which loop was applied: "none", "scan" or "sheet"
    rout        \* the rows the loop emitted

cleanVars == <<val, out1, out2, cpc>>
sigVars == <<hdrA, hdrB, hcount, kind, sigA, sigB, spc>>
fuzzyVars == <<frows, fheaders, fthr, ftarget, frows0, frows1, fvals, fmapping, fcount, fpc>>
configVars == <<mode, skip_rows, is_fuzzy, fuzzy_thresh, fuzzy_col, files>>
runVars == <<configVars, phase, idx, buckets, first_sig_standard, tables_by_sheet,
             bucket_data_payload, named_buckets, uiQueue, runBtn, error, last_warning,
             reads, open_wbs, rendered, report_written>>
rowsVars == <<rws, rkind, rout>>
vars == <<cleanVars, sigVars, fuzzyVars, runVars, rowsVars>>

\* What each specification leaves alone.
notCleanVars == <<sigVars, fuzzyVars, runVars, rowsVars>>
notSigVars   == <<cleanVars, fuzzyVars, runVars, rowsVars>>
notFuzzyVars == <<cleanVars, sigVars, runVars, rowsVars>>
notRunVars   == <<cleanVars, sigVars, fuzzyVars, rowsVars>>
notRowsVars  == <<cleanVars, sigVars, fuzzyVars, runVars>>

(***************************************************************************)
(* Characters and strings                                                  *)
(***************************************************************************)
SP   == " "
NBSP == "<nbsp>"     \* U+00A0, the non-breaking space '\xa0'
NL   == "<nl>"       \* '\n'
TAB  == "<tab>"      \* '\t'

\* str.isspace(): the characters str.strip() removes at both ends.
IsSpace(c) == c \in {SP, NBSP, NL, TAB}

LowerOf ==
    [c \in {"A","B","C","D","E","F","G","H","I","J","K","L","M",
            "N","O","P","Q","R","S","T","U","V","W","X","Y","Z"} |->
       CASE c = "A" -> "a" [] c = "B" -> "b" [] c = "C" -> "c" [] c = "D" -> "d"
         [] c = "E" -> "e" [] c = "F" -> "f" [] c = "G" -> "g" [] c = "H" -> "h"
         [] c = "I" -> "i" [] c = "J" -> "j" [] c = "K" -> "k" [] c = "L" -> "l"
         [] c = "M" -> "m" [] c = "N" -> "n" [] c = "O" -> "o" [] c = "P" -> "p"
         [] c = "Q" -> "q" [] c = "R" -> "r" [] c = "S" -> "s" [] c = "T" -> "t"
         [] c = "U" -> "u" [] c = "V" -> "v" [] c = "W" -> "w" [] c = "X" -> "x"
         [] c = "Y" -> "y" [] c = "Z" -> "z"]

\* str.lower()
Lower(s) == [i \in 1..Len(s) |-> IF s[i] \in DOMAIN LowerOf THEN LowerOf[s[i]] ELSE s[i]]

SetMin(S) == CHOOSE x \in S : \A y \in S : x <= y
SetMax(S) == CHOOSE x \in S : \A y \in S : x >= y

\* str.strip(): drop the leading and the trailing whitespace characters.
Strip(s) ==
    LET keep == {i \in 1..Len(s) : ~IsSpace(s[i])}
    IN  IF keep = {} THEN <<>> ELSE SubSeq(s, SetMin(keep), SetMax(keep))

\* str.replace(a, b) for a one-character a.
Replace(s, a, b) == [i \in 1..Len(s) |-> IF s[i] = a THEN b ELSE s[i]]

\* s.startswith(p)
StartsWith(s, p) == Len(p) <= Len(s) /\ SubSeq(s, 1, Len(p)) = p

\* p in s (substring test)
Contains(s, p) ==
    \E i \in 0..(Len(s) - Len(p)) : SubSeq(s, i + 1, i + Len(p)) = p

\* All sequences over S of length at most n.
SeqsUpTo(S, n) == UNION {[1..k -> S] : k \in 0..n}

Digit(n) == CASE n = 0 -> "0" [] n = 1 -> "1" [] n = 2 -> "2" [] n = 3 -> "3"
              [] n = 4 -> "4" [] n = 5 -> "5" [] n = 6 -> "6" [] n = 7 -> "7"
              [] n = 8 -> "8" [] n = 9 -> "9"

RECURSIVE IntStr(_)
\* str(n) for a natural number n
IntStr(n) == IF n < 10 THEN <<Digit(n)>> ELSE IntStr(n \div 10) \o <<Digit(n % 10)>>

(***************************************************************************)
(* Raw cell values, as openpyxl hands them over with values_only=True      *)
(***************************************************************************)
NoneVal     == [t |-> "none", s |-> <<>>, n |-> 0, d |-> <<0, 0, 0>>]
TextCell(s)     == [t |-> "str",  s |-> s,    n |-> 0, d |-> <<0, 0, 0>>]
IntCell(n)      == [t |-> "int",  s |-> <<>>, n |-> n, d |-> <<0, 0, 0>>]
DateCell(y,m,d) == [t |-> "date", s |-> <<>>, n |-> 0, d |-> <<y, m, d>>]

\* Each specification below exercises one part of the program; the variables
\* of the other parts then rest at these values.
CleanIdle == val = NoneVal /\ out1 = <<>> /\ out2 = <<>> /\ cpc = 0

SigIdle ==
    /\ hdrA = <<>> /\ hdrB = <<>> /\ hcount = 1 /\ kind = "none"
    /\ sigA = <<>> /\ sigB = <<>> /\ spc = "idle"

FuzzyIdle ==
    /\ frows = <<>> /\ fheaders = <<>> /\ fthr = 0 /\ ftarget = <<>> /\ frows0 = <<>>
    /\ frows1 = <<>>
    /\ fvals = <<>> /\ fmapping = <<>> /\ fcount = 0 /\ fpc = 0

NoSig == [known |-> FALSE, sig |-> <<>>]
NoPayload == [set |-> FALSE, buckets |-> <<>>, is_std |-> FALSE, is_fuzzy |-> FALSE,
              fuzzy_thresh |-> 0, target_col_name |-> <<>>]

\* The application after construction, before a run: nothing read, nothing
\* scheduled, the run button enabled.
RunFresh ==
    /\ phase = "Idle" /\ idx = 1 /\ buckets = <<>> /\ first_sig_standard = NoSig
    /\ tables_by_sheet = <<>> /\ bucket_data_payload = NoPayload /\ named_buckets = <<>>
    /\ uiQueue = <<>> /\ runBtn = "normal" /\ error = "none" /\ last_warning = "none"
    /\ reads = <<>> /\ open_wbs = {} /\ rendered = <<>> /\ report_written = FALSE

RowsIdle == rws = <<>> /\ rkind = "none" /\ rout = <<>>

RunIdle ==
    /\ mode = "standard" /\ skip_rows = <<"1">> /\ is_fuzzy = FALSE /\ fuzzy_thresh = 85
    /\ fuzzy_col = <<>> /\ files = <<>>
    /\ RunFresh

\* Python truthiness of a cell (any(r), "if v:")
Truthy(v) ==
    CASE v.t = "none" -> FALSE
      [] v.t = "str"  -> v.s # <<>>
      [] v.t = "int"  -> v.n # 0
      [] v.t = "date" -> TRUE

\* datetime.strftime('%Y-%m-%d')
StrfTime(d) ==
    <<Digit(d[1] \div 1000), Digit((d[1] \div 100) % 10), Digit((d[1] \div 10) % 10),
      Digit(d[1] % 10), "-", Digit(d[2] \div 10), Digit(d[2] % 10), "-",
      Digit(d[3] \div 10), Digit(d[3] % 10)>>

\* str(val): the digits of a number, the text itself, and for a datetime (a
\* date cell carries no time of day) 'YYYY-MM-DD 00:00:00'.
PyStr(v) ==
    CASE v.t = "int"  -> IntStr(v.n)
      [] v.t = "date" -> StrfTime(v.d) \o <<SP, "0", "0", ":", "0", "0", ":", "0", "0">>
      [] v.t = "none" -> <<"N", "o", "n", "e">>
      [] OTHER        -> v.s

ErrorSentinels ==
    { <<"#","V","A","L","U","E","!">>, <<"#","R","E","F","!">>,
      <<"#","N","/","A">>, <<"#","D","I","V","/","0","!">> }

\* A plausible slip: the sentinel test made on the raw text, before strip/replace.
clean_cell_value_SentinelFirst(v) ==
    IF v.t = "none" THEN <<>>
    ELSE IF v.t = "date" THEN StrfTime(v.d)
    ELSE IF PyStr(v) \in ErrorSentinels THEN <<>>
    ELSE Replace(Replace(Strip(PyStr(v)), NBSP, SP), NL, SP)

clean_cell_value(v) ==
    IF v.t = "none" THEN <<>>
    ELSE IF v.t = "date" THEN StrfTime(v.d)
    ELSE LET x == Replace(Replace(Strip(PyStr(v)), NBSP, SP), NL, SP)
         IN  IF x \in ErrorSentinels THEN <<>> ELSE x

(***************************************************************************)
(* extract_headers                                                         *)
(***************************************************************************)
Min2(a, b) == IF a <= b THEN a ELSE b

RECURSIVE Join(_, _)
\* sep.join(parts)
Join(parts, sep) ==
    IF parts = <<>> THEN <<>>
    ELSE IF Len(parts) = 1 THEN parts[1]
    ELSE parts[1] \o sep \o Join(Tail(parts), sep)

ColumnPrefix == <<"C", "o", "l", "u", "m", "n", "_">>
DashSep == <<SP, "-", SP>>

\* A plausible slip: the fragment is also lower-cased.
HeaderPart_Lowered(v) == Lower(Replace(Strip(PyStr(v)), NL, SP))

\* The header fragment of one truthy cell: str(v).strip().replace('\n', ' ')
HeaderPart(v) == Replace(Strip(PyStr(v)), NL, SP)

\* parts of column c: the fragments of the truthy cells the header rows have
\* in that column, top to bottom.
RECURSIVE HeaderParts(_, _, _)
HeaderParts(raw_headers, c, r) ==
    IF r > Len(raw_headers) THEN <<>>
    ELSE (IF c <= Len(raw_headers[r]) /\ Truthy(raw_headers[r][c])
          THEN <<HeaderPart(raw_headers[r][c])>> ELSE <<>>)
         \o HeaderParts(raw_headers, c, r + 1)

\* ws is the sheet as the sequence of its rows, each a sequence of raw cells;
\* iter_rows(min_row=1, max_row=header_rows) yields the rows that exist.
extract_headers(ws, header_rows) ==
    LET raw_headers == SubSeq(ws, 1, Min2(header_rows, Len(ws)))
    IN  IF raw_headers = <<>> THEN <<>>
        ELSE [c \in 1..Len(raw_headers[1]) |->
                LET parts == HeaderParts(raw_headers, c, 1)
                IN  IF parts = <<>> THEN ColumnPrefix \o IntStr(c)
                    ELSE Join(parts, DashSep)]

(***************************************************************************)
(* Specification SpecSig: the signatures of a sheet and of a variation     *)
(***************************************************************************)
SigMaxCols == 2

SigFirstRowCells ==
    { NoneVal, TextCell(<<"A">>), TextCell(<<"A", SP, "b">>), TextCell(<<SP>>),
      TextCell(<<"A", SP, "-", SP, "A">>), TextCell(ColumnPrefix \o <<"1">>) }

SigSecondRowCells == { NoneVal, TextCell(<<"A">>) }

SigSheets ==
    UNION { [1..1 -> [1..n -> SigFirstRowCells]] : n \in 1..SigMaxCols }
    \cup
    UNION { { <<r1, r2>> : r1 \in [1..n -> SigFirstRowCells],
                           r2 \in [1..n -> SigSecondRowCells] } : n \in 1..SigMaxCols }

SigInit ==
    /\ hdrA \in SigSheets
    /\ hdrB = hdrA
    /\ hcount \in 1..2
    /\ kind = "none"
    /\ sigA = <<>> /\ sigB = <<>>
    /\ spc = "input"
    /\ CleanIdle /\ FuzzyIdle /\ RunIdle /\ RowsIdle

\* The cells extract_headers reads: those of the first header_rows rows.
HeaderPositions ==
    { <<r, c>> : r \in 1..Min2(hcount, Len(hdrA)), c \in 1..Len(hdrA[1]) }

SigVaried(sheet, k) ==
    /\ spc = "input"
    /\ hdrB' = sheet
    /\ kind' = k
    /\ spc' = "varied"
    /\ UNCHANGED <<hdrA, hcount, sigA, sigB, notSigVars>>

\* The second sheet is the same sheet.
SigSame == SigVaried(hdrA, "same")

\* A header cell holding visible text gets one more whitespace character at
\* its left or right end.
SigPadCell ==
    \E p \in HeaderPositions, w \in {SP, NL, NBSP}, left \in BOOLEAN :
        LET v == hdrA[p[1]][p[2]]
        IN  /\ v.t = "str" /\ Strip(v.s) # <<>>
            /\ SigVaried([hdrA EXCEPT ![p[1]][p[2]] =
                            TextCell(IF left THEN <<w>> \o v.s ELSE v.s \o <<w>>)],
                         "trim")

\* A space inside a header cell becomes a newline.
SigNewlineForSpace ==
    \E p \in HeaderPositions :
        LET v == hdrA[p[1]][p[2]]
        IN  /\ v.t = "str"
            /\ \E i \in 2..(Len(v.s) - 1) :
                 /\ v.s[i] = SP
                 /\ SigVaried([hdrA EXCEPT ![p[1]][p[2]] =
                                 TextCell([v.s EXCEPT ![i] = NL])], "trim")

\* A space inside a header cell is doubled, or becomes a non-breaking space.
SigInnerSpace ==
    \E p \in HeaderPositions, double \in BOOLEAN :
        LET v == hdrA[p[1]][p[2]]
        IN  /\ v.t = "str"
            /\ \E i \in 2..(Len(v.s) - 1) :
                 /\ v.s[i] = SP
                 /\ SigVaried([hdrA EXCEPT ![p[1]][p[2]] =
                                 TextCell(IF double
                                          THEN SubSeq(v.s, 1, i) \o SubSeq(v.s, i, Len(v.s))
                                          ELSE [v.s EXCEPT ![i] = NBSP])], "inner")

\* An empty header cell now holds one whitespace character.
SigBlankCell ==
    \E p \in HeaderPositions, w \in {SP, NL} :
        /\ hdrA[p[1]][p[2]] = NoneVal
        /\ SigVaried([hdrA EXCEPT ![p[1]][p[2]] = TextCell(<<w>>)], "blank")

\* One capital letter of a header cell is written in lower case.
SigLetterCase ==
    \E p \in HeaderPositions :
        LET v == hdrA[p[1]][p[2]]
        IN  /\ v.t = "str"
            /\ \E i \in 1..Len(v.s) :
                 /\ v.s[i] \in DOMAIN LowerOf
                 /\ SigVaried([hdrA EXCEPT ![p[1]][p[2]] =
                                 TextCell([v.s EXCEPT ![i] = LowerOf[v.s[i]]])], "case")

\* The second sheet has one more column (in every row).
SigAddColumn ==
    \E v \in {NoneVal, TextCell(<<"A">>)} :
        SigVaried([r \in 1..Len(hdrA) |-> Append(hdrA[r], IF r = 1 THEN v ELSE NoneVal)],
                  "count")

\* The second sheet has its last column removed.
SigDropColumn ==
    /\ Len(hdrA[1]) > 1
    /\ SigVaried([r \in 1..Len(hdrA) |-> SubSeq(hdrA[r], 1, Len(hdrA[r]) - 1)], "count")

RECURSIVE VisibleParts(_)
\* of a column's header cells, the fragments that show some text
VisibleParts(cells) ==
    IF cells = <<>> THEN <<>>
    ELSE LET v == Head(cells)
             rest == VisibleParts(Tail(cells))
         IN  IF Truthy(v) /\ Strip(PyStr(v)) # <<>>
             THEN <<Replace(Strip(PyStr(v)), NL, SP)>> \o rest
             ELSE rest

\* The header text a reader sees above column c of the sheet.
ColumnText(sheet, c) ==
    Join(VisibleParts([r \in 1..Min2(hcount, Len(sheet)) |-> sheet[r][c]]), DashSep)

\* Two columns whose header texts differ change places.
SigSwapColumns ==
    \E i, j \in 1..Len(hdrA[1]) :
        /\ i < j
        /\ ColumnText(hdrA, i) # ColumnText(hdrA, j)
        /\ SigVaried([r \in 1..Len(hdrA) |->
                        [hdrA[r] EXCEPT ![i] = hdrA[r][j], ![j] = hdrA[r][i]]],
                     "reorder")

\* sig = tuple(local_cols) for each of the two sheets
SigExtract ==
    /\ spc = "varied"
    /\ sigA' = extract_headers(hdrA, hcount)
    /\ sigB' = extract_headers(hdrB, hcount)
    /\ spc' = "done"
    /\ UNCHANGED <<hdrA, hdrB, hcount, kind, notSigVars>>

SigNext ==
    \/ SigSame \/ SigPadCell \/ SigNewlineForSpace \/ SigInnerSpace \/ SigBlankCell
    \/ SigLetterCase \/ SigAddColumn \/ SigDropColumn \/ SigSwapColumns
    \/ SigExtract

SpecSig == SigInit /\ [][SigNext]_vars

CharOrder ==
    <<TAB, NL, SP, "#", "-", ".", "/", "0", "1", "2", "3", "4", "5", "6", "7", "8",
      "9", ":", ";", "A", "B", "C", "D", "E", "F", "G", "H", "I", "J", "K", "L", "M", "N",
      "O", "P", "Q", "R", "S", "T", "U", "V", "W", "X", "Y", "Z", "_", "a", "b", "c",
      "d", "e", "f", "g", "h", "i", "j", "k", "l", "m", "n", "o", "p", "q", "r", "s",
      "t", "u", "v", "w", "x", "y", "z", "|", NBSP>>

Ord(c) == CHOOSE k \in 1..Len(CharOrder) : CharOrder[k] = c

RECURSIVE StrLess(_, _)
\* a < b for two strings (lexicographic, by code point)
StrLess(a, b) ==
    IF b = <<>> THEN FALSE
    ELSE IF a = <<>> THEN TRUE
    ELSE IF Head(a) = Head(b) THEN StrLess(Tail(a), Tail(b))
    ELSE Ord(Head(a)) < Ord(Head(b))

RECURSIVE SplitFrom(_, _, _)
\* s.split(): the maximal runs of non-whitespace characters, in order
SplitFrom(s, k, cur) ==
    IF k > Len(s) THEN (IF cur = <<>> THEN <<>> ELSE <<cur>>)
    ELSE IF IsSpace(s[k])
         THEN (IF cur = <<>> THEN <<>> ELSE <<cur>>) \o SplitFrom(s, k + 1, <<>>)
         ELSE SplitFrom(s, k + 1, Append(cur, s[k]))

Split(s) == SplitFrom(s, 1, <<>>)

RECURSIVE InsertSorted(_, _)
InsertSorted(t, sorted) ==
    IF sorted = <<>> THEN <<t>>
    ELSE IF StrLess(Head(sorted), t) \/ Head(sorted) = t
         THEN <<Head(sorted)>> \o InsertSorted(t, Tail(sorted))
         ELSE <<t>> \o sorted

RECURSIVE SortTokens(_)
\* sorted(tokens)
SortTokens(tokens) ==
    IF tokens = <<>> THEN <<>> ELSE InsertSorted(Head(tokens), SortTokens(Tail(tokens)))

\* The string token_sort_ratio compares: the tokens sorted and joined by a space.
TokenSort(s) == Join(SortTokens(Split(s)), <<SP>>)

Max2(a, b) == IF a >= b THEN a ELSE b

RECURSIVE LcsRow(_, _, _, _, _)
\* One row of the longest-common-subsequence table: prev is the row of the
\* characters before ch (prev[j + 1] is the entry of the first j characters of
\* b), cur holds the entries of this row computed so far.
LcsRow(prev, ch, b, j, cur) ==
    IF j > Len(b) THEN cur
    ELSE LET nxt == Append(cur, IF ch = b[j] THEN prev[j] + 1
                                ELSE Max2(prev[j + 1], cur[j]))
         IN  IF Len(nxt) = j + 1 THEN LcsRow(prev, ch, b, j + 1, nxt) ELSE nxt

RECURSIVE LcsFrom(_, _, _, _)
LcsFrom(a, b, k, prev) ==
    IF k > Len(a) THEN prev[Len(b) + 1]
    ELSE LET row == LcsRow(prev, a[k], b, 1, <<0>>)
         IN  IF Len(row) = Len(b) + 1 THEN LcsFrom(a, b, k + 1, row) ELSE 0

\* The length of a longest common subsequence of a and b.
Lcs(a, b) == LcsFrom(a, b, 1, [j \in 1..(Len(b) + 1) |-> 0])

\* token_sort_ratio(a, b) is the normalized Indel similarity of the two
\* token-sorted strings, times 100: 100 * 2 * lcs / (len(a') + len(b')), and
\* 100 when both are empty.  The score is kept as the exact fraction
\* ScoreNum / ScoreDen.
ScoreNum(a, b) ==
    LET x == TokenSort(a)
        y == TokenSort(b)
    IN  IF Len(x) + Len(y) = 0 THEN 100 ELSE 200 * Lcs(x, y)

ScoreDen(a, b) ==
    LET n == Len(TokenSort(a)) + Len(TokenSort(b))
    IN  IF n = 0 THEN 1 ELSE n

(***************************************************************************)
(* run_fuzzy_logic                                                         *)
(***************************************************************************)
BrandName ==
    <<"S","c","h","n","e","i","d","e","r",SP,"E","l","e","c","t","r","i","c">>
BrandKeyword == <<"s","c","h","n","e","i","d","e","r">>
BrandTokens == { <<"s","e">>, <<"s",".","e",".">> }

\* "schneider" in x or x in ["se", "s.e."], for a lower-cased x
IsBrand(x) == Contains(x, BrandKeyword) \/ x \in BrandTokens

TargetColumn_First(headers, target_col_name) ==
    IF headers = <<>> THEN 0 ELSE 1

\* The index (from 1) of the first header that contains the lower-cased target
\* fragment, 0 when there is none (col_idx == -1).
TargetColumn(headers, target_col_name) ==
    LET target == Lower(target_col_name)
        hits == {k \in 1..Len(headers) : Contains(Lower(headers[k]), target)}
    IN  IF hits = {} THEN 0 ELSE SetMin(hits)

\* The distinct non-empty stripped values of the target column.
UniqueVals(rows, col) ==
    {Strip(rows[k][col]) : k \in {q \in 1..Len(rows) : Strip(rows[q][col]) # <<>>}}

\* list(set(...)) followed by sort(key=len): every arrangement of the values
\* in which the lengths never decrease (the set's iteration order decides the
\* order of values of equal length).
LengthSortedOrders(S) ==
    {u \in [1..Cardinality(S) -> S] :
        /\ \A a, b \in 1..Cardinality(S) : a # b => u[a] # u[b]
        /\ \A a \in 1..(Cardinality(S) - 1) : Len(u[a]) <= Len(u[a + 1])}

\* A plausible slip: a strict comparison.
ScoreReaches_Strict(s_lower, l_lower, thr) ==
    ScoreNum(s_lower, l_lower) > thr * ScoreDen(s_lower, l_lower)

\* score >= rf_threshold, with rf_threshold = threshold * 100
ScoreReaches(s_lower, l_lower, thr) ==
    ScoreNum(s_lower, l_lower) >= thr * ScoreDen(s_lower, l_lower)

BelowLengthFloor_Never(short_val, long_val) == FALSE

\* len_ratio < 0.6
BelowLengthFloor(short_val, long_val) == 10 * Len(short_val) < 6 * Len(long_val)

RECURSIVE InnerLoop(_, _, _, _, _)
\* for long_val in unique_vals[i+1:], with short_val = u[i]
InnerLoop(u, i, j, thr, mapping) ==
    IF j > Len(u) THEN mapping
    ELSE LET short_val == u[i]
             long_val == u[j]
             s_lower == Lower(short_val)
             l_lower == Lower(long_val)
         IN  IF long_val \in DOMAIN mapping THEN InnerLoop(u, i, j + 1, thr, mapping)
             ELSE IF IsBrand(l_lower)
                  THEN InnerLoop(u, i, j + 1, thr, (long_val :> BrandName) @@ mapping)
             ELSE IF StartsWith(l_lower, s_lower)
                  THEN InnerLoop(u, i, j + 1, thr, (long_val :> short_val) @@ mapping)
             ELSE IF BelowLengthFloor(short_val, long_val)
                  THEN InnerLoop(u, i, j + 1, thr, mapping)
             ELSE IF ScoreReaches(s_lower, l_lower, thr)
                  THEN InnerLoop(u, i, j + 1, thr, (long_val :> short_val) @@ mapping)
             ELSE InnerLoop(u, i, j + 1, thr, mapping)

\* A plausible slip: the brand test of the inner loop comes after the prefix
\* and fuzzy tests instead of before them.
RECURSIVE InnerLoop_BrandLast(_, _, _, _, _)
InnerLoop_BrandLast(u, i, j, thr, mapping) ==
    IF j > Len(u) THEN mapping
    ELSE LET short_val == u[i]
             long_val == u[j]
             s_lower == Lower(short_val)
             l_lower == Lower(long_val)
         IN  IF long_val \in DOMAIN mapping
                  THEN InnerLoop_BrandLast(u, i, j + 1, thr, mapping)
             ELSE IF StartsWith(l_lower, s_lower)
                  THEN InnerLoop_BrandLast(u, i, j + 1, thr, (long_val :> short_val) @@ mapping)
             ELSE IF ~BelowLengthFloor(short_val, long_val)
                     /\ ScoreReaches(s_lower, l_lower, thr)
                  THEN InnerLoop_BrandLast(u, i, j + 1, thr, (long_val :> short_val) @@ mapping)
             ELSE IF IsBrand(l_lower)
                  THEN InnerLoop_BrandLast(u, i, j + 1, thr, (long_val :> BrandName) @@ mapping)
             ELSE InnerLoop_BrandLast(u, i, j + 1, thr, mapping)

\* The inner loop as the outer loop calls it.
ScanLonger_BrandLast(u, i, thr, mapping) == InnerLoop_BrandLast(u, i, i + 1, thr, mapping)

ScanLonger(u, i, thr, mapping) == InnerLoop(u, i, i + 1, thr, mapping)

RECURSIVE OuterLoop(_, _, _, _)
\* for i, short_val in enumerate(unique_vals)
OuterLoop(u, i, thr, mapping) ==
    IF i > Len(u) THEN mapping
    ELSE LET short_val == u[i]
             s_lower == Lower(short_val)
         IN  IF IsBrand(s_lower)
                  THEN OuterLoop(u, i + 1, thr,
                                 [x \in DOMAIN mapping \cup {short_val} |->
                                     IF x = short_val THEN BrandName ELSE mapping[x]])
             ELSE IF short_val \in DOMAIN mapping THEN OuterLoop(u, i + 1, thr, mapping)
             ELSE IF Len(short_val) < 2
                  THEN OuterLoop(u, i + 1, thr, (short_val :> short_val) @@ mapping)
             ELSE OuterLoop(u, i + 1, thr,
                            ScanLonger(u, i, thr, (short_val :> short_val) @@ mapping))

RECURSIVE OuterLoop_NoBrand(_, _, _, _)
\* A plausible slip: the brand rule is applied to the longer values only.
OuterLoop_NoBrand(u, i, thr, mapping) ==
    IF i > Len(u) THEN mapping
    ELSE LET short_val == u[i]
         IN  IF short_val \in DOMAIN mapping THEN OuterLoop_NoBrand(u, i + 1, thr, mapping)
             ELSE IF Len(short_val) < 2
                  THEN OuterLoop_NoBrand(u, i + 1, thr, (short_val :> short_val) @@ mapping)
             ELSE OuterLoop_NoBrand(u, i + 1, thr,
                            ScanLonger(u, i, thr, (short_val :> short_val) @@ mapping))

\* A plausible slip: a value that was merged into a shorter one is still
\* tried as a match target for the longer ones.
RECURSIVE OuterLoop_Rescan(_, _, _, _)
OuterLoop_Rescan(u, i, thr, mapping) ==
    IF i > Len(u) THEN mapping
    ELSE LET short_val == u[i]
             s_lower == Lower(short_val)
         IN  IF IsBrand(s_lower)
                  THEN OuterLoop_Rescan(u, i + 1, thr,
                                 [x \in DOMAIN mapping \cup {short_val} |->
                                     IF x = short_val THEN BrandName ELSE mapping[x]])
             ELSE IF Len(short_val) < 2
                  THEN OuterLoop_Rescan(u, i + 1, thr, (short_val :> short_val) @@ mapping)
             ELSE OuterLoop_Rescan(u, i + 1, thr,
                            ScanLonger(u, i, thr, mapping @@ (short_val :> short_val)))

BuildMapping_Rescan(u, thr) == OuterLoop_Rescan(u, 1, thr, <<>>)

BuildMapping_NoOuterBrand(u, thr) == OuterLoop_NoBrand(u, 1, thr, <<>>)

\* mapping, for unique_vals in the order u.
BuildMapping(u, thr) == OuterLoop(u, 1, thr, <<>>)

\* The rows after the rewrite loop: the target cell of a row whose stripped
\* value has another canonical form is replaced by it.
RewriteRows(rows, col, mapping) ==
    [k \in 1..Len(rows) |->
        LET orig == Strip(rows[k][col])
        IN  IF orig \in DOMAIN mapping /\ mapping[orig] # orig
            THEN [rows[k] EXCEPT ![col] = mapping[orig]]
            ELSE rows[k]]

\* count: the number of rows the rewrite loop changed.
MergedCount(rows, col, mapping) ==
    Cardinality({k \in 1..Len(rows) :
                    LET orig == Strip(rows[k][col])
                    IN  orig \in DOMAIN mapping /\ mapping[orig] # orig})

\* What one call of run_fuzzy_logic can leave behind: the rows, the order of
\* unique_vals it used, the mapping and the count.  With no target column
\* the call returns at once and the rows stay as they are.
FuzzyOutcomes(rows, headers, thr, target_col_name) ==
    LET col == TargetColumn(headers, target_col_name)
    IN  IF col = 0
        THEN {[rows |-> rows, vals |-> <<>>, mapping |-> <<>>, count |-> 0, col |-> 0]}
        ELSE {[rows    |-> RewriteRows(rows, col, BuildMapping(u, thr)),
               vals    |-> u,
               mapping |-> BuildMapping(u, thr),
               count   |-> MergedCount(rows, col, BuildMapping(u, thr)),
               col     |-> col] : u \in LengthSortedOrders(UniqueVals(rows, col))}

(***************************************************************************)
(* Specification SpecFuzzy: run_fuzzy_logic applied twice to a row list    *)
(***************************************************************************)
MaxFuzzyVals == 3

Rep(c, n) == [k \in 1..n |-> c]

\* Two values whose token_sort_ratio is exactly 85 (lcs 17, lengths 17 and 23)
\* and two whose ratio is exactly 84 (lcs 21, lengths 21 and 29).
Short85 == Rep("k", 17)
Long85  == <<"m">> \o Rep("k", 17) \o Rep("m", 5)
Short84 == Rep("p", 21)
Long84  == <<"q">> \o Rep("p", 21) \o Rep("q", 7)

FuzzyValues ==
    { <<"S","E">>,
      <<"A","c","m","e">>, <<"A","C","M","E">>, <<"A","c","m","e",SP,"I","n","c">>,
      <<"S","c","h","n","e","i","d","e">>, <<"S","c","h","n","e","i","d","e","r">>,
      <<"g","g","g","g">>, <<"h","g","g","g","g","h">>, <<"h","g","g","g","g","h","h">>,
      <<"x","y",SP,"z","w">>, <<"z","w",SP,"x","y">>,
      <<"Q">> }

\* The sets of distinct values the target column holds: every small set of
\* the values above, the sets of the two boundary pairs, and a set with a
\* prefix pair and a pair under the length-ratio floor.
FuzzyInputSets ==
    {S \in SUBSET FuzzyValues : Cardinality(S) <= MaxFuzzyVals}
    \cup { {Short85, Long85}, {Short84, Long84}, {Short85, Long85, Short84, Long84},
           {<<"g","g","g","g">>, <<"h","g","g","g","g","h","h">>,
            <<"A","c","m","e">>, <<"A","c","m","e",SP,"I","n","c">>} }

HdrId == <<"I", "d">>
HdrCo == <<"C", "o">>
FuzzySourceName == <<"f", "1">>

RECURSIVE SetToSeq(_)
SetToSeq(S) ==
    IF S = {} THEN <<>>
    ELSE LET x == CHOOSE y \in S : TRUE IN <<x>> \o SetToSeq(S \ {x})

\* One row per value (cells as clean_cell_value leaves them, the source file
\* name last), the first value once more, and a row with an empty cell.
FuzzyRowsOf(S, headers) ==
    LET vs == SetToSeq(S)
        withDup == IF vs = <<>> THEN <<>> ELSE vs \o <<vs[1]>> \o << <<>> >>
    IN  [k \in 1..Len(withDup) |->
            IF headers[1] = HdrCo THEN <<withDup[k], <<"x">>, FuzzySourceName>>
            ELSE <<<<"x">>, withDup[k], FuzzySourceName>>]

FuzzyInit ==
    /\ fheaders \in { <<HdrId, HdrCo>>, <<HdrCo, HdrId>> }
    /\ \E S \in FuzzyInputSets : frows = FuzzyRowsOf(S, fheaders)
    /\ fthr \in {50, 80, 85}
    /\ ftarget \in { <<"c", "o">>, <<"C", "O">>, <<"z", "z">> }
    /\ frows0 = frows
    /\ frows1 = <<>>
    /\ fvals = <<>> /\ fmapping = <<>> /\ fcount = 0 /\ fpc = 0
    /\ CleanIdle /\ SigIdle /\ RunIdle /\ RowsIdle

FuzzyRun(n) ==
    /\ fpc = n - 1
    /\ \E o \in FuzzyOutcomes(frows, fheaders, fthr, ftarget) :
         /\ frows' = o.rows
         /\ fvals' = o.vals
         /\ fmapping' = o.mapping
         /\ fcount' = o.count
    /\ frows1' = IF n = 1 THEN frows' ELSE frows1
    /\ fpc' = n
    /\ UNCHANGED <<fheaders, fthr, ftarget, frows0, notFuzzyVars>>

\* run_fuzzy_logic(rows, headers, threshold, target_col_name)
FuzzyFirst == FuzzyRun(1)

\* the same call once more, on the rows the first call rewrote
FuzzySecond == FuzzyRun(2)

FuzzyNext == FuzzyFirst \/ FuzzySecond

SpecFuzzy == FuzzyInit /\ [][FuzzyNext]_vars

FuzzyCol == TargetColumn(fheaders, ftarget)

\* C6: canonicalization is idempotent: a second run on the rows the first run
\* rewrote changes no row and counts zero merged records, whatever order the
\* two runs visit values of equal length in.
C6_CanonicalizeIdempotent == fpc = 2 => (frows = frows1 /\ fcount = 0)

\* C6 witness: the first run rewrote rows (a prefix merge and a brand
\* override), and the second run has been made on its result.
C6_Witness ==
    /\ fpc = 2 /\ FuzzyCol # 0 /\ frows1 # frows0
    /\ \E k \in 1..Len(frows0) :
         /\ frows0[k][FuzzyCol] = <<"A","c","m","e",SP,"I","n","c">>
         /\ frows1[k][FuzzyCol] = <<"A","c","m","e">>
    /\ \E k \in 1..Len(frows0) :
         /\ frows0[k][FuzzyCol] = <<"S","E">>
         /\ frows1[k][FuzzyCol] = BrandName

\* Positions i < j of unique_vals whose values reach the fuzzy comparison:
\* the shorter one is its own canonical form and scans the longer ones; the
\* longer one is no brand value, does not start with the shorter one and is
\* not below the length-ratio floor.
ReachFuzzy(i, j) ==
    LET s == fvals[i]
        l == fvals[j]
    IN  /\ i < j
        /\ ~IsBrand(Lower(s)) /\ Len(s) >= 2 /\ fmapping[s] = s
        /\ ~IsBrand(Lower(l))
        /\ ~StartsWith(Lower(l), Lower(s))
        /\ 10 * Len(s) >= 6 * Len(l)

\* C7: threshold boundary: for a shorter value s and a longer value l that
\* reach the fuzzy comparison, a score at or above threshold*100 leaves l
\* merged (into s, unless an earlier value took it first), and a score below
\* it never maps l to s.
C7_ThresholdBoundary ==
    fpc = 1 /\ FuzzyCol # 0 =>
        \A i, j \in 1..Len(fvals) :
            ReachFuzzy(i, j) =>
                LET s == fvals[i]
                    l == fvals[j]
                    num == ScoreNum(Lower(s), Lower(l))
                    den == ScoreDen(Lower(s), Lower(l))
                IN  /\ num >= fthr * den =>
                        \E k \in 1..i : fmapping[l] = fvals[k] /\ (k = i \/ ~ReachFuzzy(k, j)
                              \/ ScoreNum(Lower(fvals[k]), Lower(l))
                                   >= fthr * ScoreDen(Lower(fvals[k]), Lower(l)))
                    /\ num < fthr * den => fmapping[l] # s

\* C7 witness: at threshold 0.85 a pair scoring exactly 85 was merged, and in
\* the same run a pair scoring exactly 84 reached the comparison unmerged.
C7_Witness ==
    /\ fpc = 1 /\ FuzzyCol # 0 /\ fthr = 85
    /\ \E i, j \in 1..Len(fvals) :
         /\ ReachFuzzy(i, j)
         /\ fvals[i] = Short85 /\ fvals[j] = Long85
         /\ ScoreNum(Short85, Long85) = 85 * ScoreDen(Short85, Long85)
         /\ fmapping[Long85] = Short85
    /\ \E k \in 1..Len(frows0) :
         frows0[k][FuzzyCol] = Long85 /\ frows[k][FuzzyCol] = Short85
    /\ \E i, j \in 1..Len(fvals) :
         /\ ReachFuzzy(i, j)
         /\ fvals[i] = Short84 /\ fvals[j] = Long84
         /\ ScoreNum(Short84, Long84) = 84 * ScoreDen(Short84, Long84)
         /\ fmapping[Long84] = Long84

\* C8: brand override precedence: every value of the target column that
\* contains the brand keyword or is one of the short-form tokens (in any
\* letter case) is mapped to the brand canonical name and to nothing else, and
\* its rows carry the brand name after the run.
C8_BrandOverride ==
    fpc = 1 /\ FuzzyCol # 0 =>
        \A k \in 1..Len(frows0) :
            LET v == Strip(frows0[k][FuzzyCol])
            IN  IsBrand(Lower(v)) =>
                    /\ v \in DOMAIN fmapping
                    /\ fmapping[v] = BrandName
                    /\ frows[k][FuzzyCol] = BrandName

\* C8 witness: a brand value sorted after a shorter value that is a prefix of
\* it ("Schneide" before "Schneider") was mapped to the brand name.
C8_Witness ==
    /\ fpc = 1 /\ FuzzyCol # 0
    /\ \E i, j \in 1..Len(fvals) :
         /\ i < j
         /\ fvals[i] = <<"S","c","h","n","e","i","d","e">>
         /\ fvals[j] = <<"S","c","h","n","e","i","d","e","r">>
         /\ fmapping[fvals[i]] = fvals[i]
         /\ fmapping[fvals[j]] = BrandName

(***************************************************************************)
(* worker_process_files: the file loop of standard and normal mode         *)
(***************************************************************************)
\* safe_int(value, default): int() of the text of the entry, which check_num
\* keeps to digits or empty; anything int() rejects gives the default.
RECURSIVE DigitsValue(_, _)
DigitsValue(s, acc) ==
    IF s = <<>> THEN acc
    ELSE DigitsValue(Tail(s), 10 * acc + (CHOOSE d \in 0..9 : Digit(d) = Head(s)))

safe_int(value, default) ==
    IF value # <<>> /\ \A i \in 1..Len(value) : \E d \in 0..9 : Digit(d) = value[i]
    THEN DigitsValue(value, 0)
    ELSE default

\* h_count: 1 in standard mode, else the entry's number when it is positive.
HeaderCount(is_std, rows_text) ==
    IF is_std THEN 1
    ELSE LET h_val == safe_int(rows_text, 1)
         IN  IF h_val > 0 THEN h_val ELSE 1

\* any(r)
AnyTruthy(r) == \E i \in 1..Len(r) : Truthy(r[i])

\* row_data: one normalized cell per header column, a missing cell read as
\* None, then the file name.
RowData(r, n_cols, fname) ==
    [i \in 1..n_cols |-> clean_cell_value(IF i <= Len(r) THEN r[i] ELSE NoneVal)]
        \o <<fname>>

SeenBefore_Never(sig_row, seen_rows) == FALSE

\* sig_row in seen_rows
SeenBefore(sig_row, seen_rows) == sig_row \in seen_rows

\* The row loop of one file: rows after the header rows, blank rows skipped,
\* a row whose tuple was already seen in this file skipped.
RECURSIVE ScanRowsFrom(_, _, _, _, _, _)
ScanRowsFrom(ws, k, n_cols, fname, seen_rows, file_rows) ==
    IF k > Len(ws) THEN file_rows
    ELSE IF ~AnyTruthy(ws[k])
         THEN ScanRowsFrom(ws, k + 1, n_cols, fname, seen_rows, file_rows)
         ELSE LET row_data == RowData(ws[k], n_cols, fname)
              IN  IF SeenBefore(row_data, seen_rows)
                  THEN ScanRowsFrom(ws, k + 1, n_cols, fname, seen_rows, file_rows)
                  ELSE ScanRowsFrom(ws, k + 1, n_cols, fname,
                                    seen_rows \cup {row_data},
                                    Append(file_rows, row_data))

ScanRows(ws, h_count, n_cols, fname) ==
    ScanRowsFrom(ws, h_count + 1, n_cols, fname, {}, <<>>)

\* Position of the bucket with this signature, 0 when there is none.
BucketIndex(bs, sig) ==
    IF \E b \in 1..Len(bs) : bs[b].sig = sig
    THEN CHOOSE b \in 1..Len(bs) : bs[b].sig = sig
    ELSE 0

\* buckets[sig] = {...} when the signature is new; the file is appended to
\* the bucket's list before its rows are read.
WithFile(bs, sig, fname) ==
    LET known == IF BucketIndex(bs, sig) = 0
                 THEN Append(bs, [sig |-> sig, cols |-> sig, rows |-> <<>>, files |-> <<>>])
                 ELSE bs
        b == BucketIndex(known, sig)
    IN  [known EXCEPT ![b].files = Append(@, fname)]

WithRows(bs, sig, file_rows) ==
    [bs EXCEPT ![BucketIndex(bs, sig)].rows = @ \o file_rows]

SigMismatch_LengthOnly(is_std, first, sig) ==
    is_std /\ first.known /\ Len(sig) # Len(first.sig)

\* Standard mode, a first signature is recorded and this one differs.
SigMismatch(is_std, first, sig) ==
    is_std /\ first.known /\ sig # first.sig

\* One pass of the loop body for file f: what it leaves in buckets and
\* first_sig_standard, and the exception it ends with ("none" when it ends
\* normally or with continue).
ScanOne(f, is_std, h_count, bs, first) ==
    LET same == [buckets |-> bs, first |-> first, raised |-> "none"]
        local_cols == extract_headers(f.ws, h_count)
        first2 == IF is_std /\ ~first.known
                  THEN [known |-> TRUE, sig |-> local_cols] ELSE first
        listed == WithFile(bs, local_cols, f.name)
    IN  IF f.fault = "load" THEN [same EXCEPT !.raised = "Exception"]
        ELSE IF f.dims /\ Len(f.ws) < h_count THEN same
        ELSE IF local_cols = <<>> THEN same
        ELSE IF SigMismatch(is_std, first, local_cols)
             THEN [same EXCEPT !.raised = "ColumnMismatchError"]
        ELSE IF f.fault = "rows"
             THEN [buckets |-> listed, first |-> first2, raised |-> "Exception"]
        ELSE [buckets |-> WithRows(listed, local_cols,
                                   ScanRows(f.ws, h_count, Len(local_cols), f.name)),
              first |-> first2, raised |-> "none"]

(***************************************************************************)
(* prompt_table_names, the naming dialog and finalize_export               *)
(***************************************************************************)
\* The most buckets prompt_table_names accepts.
MaxBuckets == 15

OverLimit_AtLimit(n) == n >= MaxBuckets

\* len(buckets) > 15
OverLimit(n) == n > MaxBuckets

MainTable == <<"M", "a", "i", "n", " ", "T", "a", "b", "l", "e">>
DataTable == <<"D", "a", "t", "a">>

\* The named buckets of the branch that asks no name: every bucket is stored
\* under the same key, so the last one stays; the entry has no "header_rows".
DirectNames(bs) ==
    <<[name |-> IF Len(bs) = 1 THEN MainTable ELSE DataTable,
       cols |-> bs[Len(bs)].cols, rows |-> bs[Len(bs)].rows,
       files |-> bs[Len(bs)].files, header_rows |-> <<>>]>>

NameTaken_Never(name, used_names) == FALSE

\* name in used_names
NameTaken(name, used_names) == name \in used_names

\* on_submit's loop over the entries, in bucket order: the warning it stops
\* with, or "none" and final_map.
RECURSIVE SubmitFrom(_, _, _, _, _, _)
SubmitFrom(bs, names, hdrs, k, used_names, final_map) ==
    IF k > Len(bs) THEN [warning |-> "none", final_map |-> final_map]
    ELSE LET name == Strip(names[k])
         IN  IF name = <<>> THEN [warning |-> "Missing Name", final_map |-> <<>>]
             ELSE IF NameTaken(name, used_names)
                  THEN [warning |-> "Duplicate Name", final_map |-> <<>>]
             ELSE SubmitFrom(bs, names, hdrs, k + 1, used_names \cup {name},
                             Append(final_map,
                                    [name |-> name, cols |-> bs[k].cols,
                                     rows |-> bs[k].rows, files |-> bs[k].files,
                                     header_rows |-> <<hdrs[k]>>]))

on_submit(bs, names, hdrs) == SubmitFrom(bs, names, hdrs, 1, {}, <<>>)

\* safe_int(data.get("header_rows"), 1)
FinalHeaderCount(data) ==
    IF data.header_rows = <<>> THEN 1 ELSE data.header_rows[1]

\* The row loop of finalize_export: blank rows skipped, every other row kept.
RECURSIVE RereadRowsFrom(_, _, _, _, _)
RereadRowsFrom(ws, k, n_cols, fname, new_rows) ==
    IF k > Len(ws) THEN new_rows
    ELSE IF ~AnyTruthy(ws[k])
         THEN RereadRowsFrom(ws, k + 1, n_cols, fname, new_rows)
         ELSE RereadRowsFrom(ws, k + 1, n_cols, fname,
                             Append(new_rows, RowData(ws[k], n_cols, fname)))

FileNamed(fs, fname) == fs[CHOOSE i \in 1..Len(fs) : fs[i].name = fname]

\* The file loop of finalize_export for one named bucket.  A file that raises
\* ends the loop with its workbook left open (there is no handler around it).
RECURSIVE RereadFiles(_, _, _, _, _)
RereadFiles(fs, fnames, k, h_count, acc) ==
    IF k > Len(fnames) THEN acc
    ELSE LET f == FileNamed(fs, fnames[k])
             local_cols == extract_headers(f.ws, h_count)
             read == [acc EXCEPT !.reads = Append(@, f.name)]
         IN  IF f.fault = "load" THEN [read EXCEPT !.ok = FALSE]
             ELSE IF local_cols = <<>> THEN RereadFiles(fs, fnames, k + 1, h_count, read)
             ELSE IF f.fault = "rows"
                  THEN [read EXCEPT !.ok = FALSE, !.leaked = {f.name}]
             ELSE RereadFiles(fs, fnames, k + 1, h_count,
                     [read EXCEPT
                        !.cols = IF acc.has_cols THEN @ ELSE local_cols,
                        !.has_cols = TRUE,
                        !.rows = RereadRowsFrom(f.ws, h_count + 1, Len(local_cols),
                                                f.name, @)])

RereadTable(fs, data) ==
    RereadFiles(fs, data.files, 1, FinalHeaderCount(data),
                [ok |-> TRUE, has_cols |-> FALSE, cols |-> <<>>, rows |-> <<>>,
                 reads |-> <<>>, leaked |-> {}])

\* The rows run_fuzzy_logic can leave (its tie order is not determined).
FuzzyRows(on, rows, cols, thr, target) ==
    IF on THEN {o.rows : o \in FuzzyOutcomes(rows, cols, thr, target)} ELSE {rows}

\* The loop of finalize_export over the named buckets: every outcome it can
\* end with.  ok is FALSE when a file raised.
RECURSIVE RebuildFrom(_, _, _, _, _)
RebuildFrom(fs, named, k, payload, acc) ==
    IF k > Len(named) THEN {acc}
    ELSE LET t == RereadTable(fs, named[k])
             sofar == acc.reads \o t.reads
         IN  IF ~t.ok
             THEN {[ok |-> FALSE, tables |-> <<>>, reads |-> sofar, leaked |-> t.leaked]}
             ELSE UNION {RebuildFrom(fs, named, k + 1, payload,
                             [acc EXCEPT
                                !.tables = Append(@, [name |-> named[k].name,
                                                      cols |-> t.cols, rows |-> r]),
                                !.reads = sofar])
                         : r \in FuzzyRows(payload.is_fuzzy, t.rows, t.cols,
                                           payload.fuzzy_thresh,
                                           payload.target_col_name)}

Rebuild(fs, named, payload) ==
    RebuildFrom(fs, named, 1, payload,
                [ok |-> TRUE, tables |-> <<>>, reads |-> <<>>, leaked |-> {}])

\* The fuzzy pass of the worker over every bucket: every outcome.
RECURSIVE FuzzyBuckets(_, _, _, _)
FuzzyBuckets(bs, on, thr, target) ==
    IF bs = <<>> THEN {<<>>}
    ELSE {<<[Head(bs) EXCEPT !.rows = r]>> \o rest :
            r \in FuzzyRows(on, Head(bs).rows, Head(bs).cols, thr, target),
            rest \in FuzzyBuckets(Tail(bs), on, thr, target)}

(***************************************************************************)
(* The files a run is given                                                *)
(***************************************************************************)
\* The most files in a scenario drawn from the catalogue.
MaxFiles == 2

\* fpath of the k-th selected file; target_files.sort() leaves them in this
\* order, and the names of one folder are distinct.
FileName(k) == <<"f", Digit(k \div 10), Digit(k % 10)>>

cCo == TextCell(<<"C", "o">>)
cCoPadded == TextCell(<<SP, "C", "o">>)
cRole == TextCell(<<"R", "o">>)
cRank == TextCell(<<"R", "k">>)
cAcme == TextCell(<<"A", "c", "m", "e">>)
cAcmePadded == TextCell(<<"A", "c", "m", "e", SP>>)
cAcmeInc == TextCell(<<"A", "c", "m", "e", SP, "I", "n", "c">>)
cX == TextCell(<<"x">>)
cBlank == TextCell(<<SP>>)

\* Sheet contents of standard and normal mode.  dims says whether the sheet
\* declares its dimensions (max_row is None when it does not, and only then
\* can rows have different lengths); fault is where reading the file raises.
\* book is the workbook, its sheet names and sheets in order; ws is the active
\* sheet.
SheetOne == <<"S", "h", "e", "e", "t", "1">>
Sheet(ws, dims, fault) ==
    [ws |-> ws, dims |-> dims, fault |-> fault,
     book |-> [names |-> <<SheetOne>>, sheets |-> <<ws>>]]

\* Two columns; rows that repeat, one of them only once trimmed; a blank row.
shRepeats ==
    Sheet(<< <<cCo, cRole>>, <<cAcme, cX>>, <<cAcmePadded, cX>>,
             <<NoneVal, NoneVal>>, <<cAcmeInc, cX>>, <<cAcme, cX>> >>, TRUE, "none")
\* The same header once trimmed; a row of a blank text and a row of a zero.
shPadded ==
    Sheet(<< <<cCoPadded, cRole>>, <<cAcme, cX>>, <<cBlank, NoneVal>>,
             <<IntCell(0), NoneVal>> >>, TRUE, "none")
\* One column renamed.
shRenamed == Sheet(<< <<cCo, cRank>>, <<cAcme, cX>> >>, TRUE, "none")
\* Reading its rows raises.
shBroken == Sheet(<< <<cCo, cRank>>, <<cAcme, cX>> >>, TRUE, "rows")
\* No declared dimensions: rows longer and shorter than the header.
shRagged == Sheet(<< <<cCo>>, <<cAcme, cX>>, <<>>, <<cAcme>> >>, FALSE, "none")
shEmpty == Sheet(<< >>, FALSE, "none")
\* load_workbook raises.
shUnreadable == Sheet(<< <<cCo, cRole>> >>, TRUE, "load")
\* Fewer rows than header rows can be asked for: a header row alone and no
\* row at all, with declared dimensions, and a header row alone without.
shHeaderOnly == Sheet(<< <<cCo, cRole>> >>, TRUE, "none")
shNoRows == Sheet(<< >>, TRUE, "none")
shUnsized == Sheet(<< <<cCo, cRole>> >>, FALSE, "none")

FileCatalogue ==
    {shRepeats, shPadded, shRenamed, shBroken, shRagged, shEmpty, shUnreadable}

\* Some longer selections.
LongSelections ==
    { <<shRepeats, shRenamed, shPadded>>, <<shRepeats, shPadded, shRepeats>>,
      <<shPadded, shBroken, shRenamed>>, <<shUnreadable, shRepeats, shRagged>>,
      <<shRepeats, shRagged, shRenamed, shPadded>> }

\* No header holds the canonicalizer's column; two values it would merge.
shNoTarget ==
    Sheet(<< <<cRank, cRole>>, <<cAcme, cX>>, <<cAcmeInc, cX>> >>, TRUE, "none")
NoTargetSelections == { <<shNoTarget>>, <<shNoTarget, shRepeats>> }

\* Selections with a sheet of fewer rows than header rows.
ShortSelections ==
    { <<shHeaderOnly, shRepeats>>, <<shNoRows, shRepeats>>, <<shUnsized, shRepeats>> }

\* Many files of pairwise different one-column headers, one row each.
WideSheet(k) ==
    Sheet(<< <<TextCell(<<"H", Digit(k \div 10), Digit(k % 10)>>)>>, <<cAcme>> >>,
          TRUE, "none")

WideCounts == {MaxBuckets, MaxBuckets + 1}

Named(sheets) ==
    [k \in 1..Len(sheets) |->
        [name |-> FileName(k), ws |-> sheets[k].ws, dims |-> sheets[k].dims,
         fault |-> sheets[k].fault, book |-> sheets[k].book]]

SheetScenarios ==
    {Named(s) : s \in SeqsUpTo(FileCatalogue, MaxFiles) \cup LongSelections
                        \cup ShortSelections \cup NoTargetSelections}
        \cup {Named([k \in 1..n |-> WideSheet(k)]) : n \in WideCounts}

\* What the entry of the header-row count can hold when the run starts.
RowsTexts == {<<"1">>, <<"2">>}
\* Other texts check_num lets through: a larger number, zero, nothing.  They
\* are tried on one selection.
OtherRowsTexts == {<<"6">>, <<"0">>, <<>>}

(***************************************************************************)
(* Specification Spec: runs of the application                             *)
(***************************************************************************)
\* A load_workbook call: the thread that made it, the step and the file.
Read(thread, step, fname) == [thread |-> thread, step |-> step, file |-> fname]

\* What a run starts from: the locals of a fresh worker, nothing scheduled.
\* Workbooks an earlier run left open stay open.
StartRun ==
    /\ idx' = 1 /\ buckets' = <<>> /\ first_sig_standard' = NoSig
    /\ tables_by_sheet' = <<>> /\ bucket_data_payload' = NoPayload
    /\ named_buckets' = <<>> /\ error' = "none" /\ last_warning' = "none"
    /\ reads' = <<>> /\ rendered' = <<>> /\ report_written' = FALSE

\* A plausible slip: the worker is started with the button left enabled.
OnRunClick_StaysEnabled ==
    /\ runBtn = "normal"
    /\ IF files = <<>>
       THEN /\ last_warning' = "Selection Error"
            /\ UNCHANGED <<phase, idx, buckets, first_sig_standard, tables_by_sheet,
                           bucket_data_payload, named_buckets, runBtn, error, reads,
                           rendered, report_written>>
       ELSE /\ UNCHANGED runBtn
            /\ phase' = "Scanning"
            /\ StartRun
    /\ UNCHANGED <<configVars, uiQueue, open_wbs, notRunVars>>

\* on_run_click: with no file selected a warning and nothing else; otherwise
\* the button is disabled and the worker thread started.
OnRunClick ==
    /\ runBtn = "normal"
    /\ IF files = <<>>
       THEN /\ last_warning' = "Selection Error"
            /\ UNCHANGED <<phase, idx, buckets, first_sig_standard, tables_by_sheet,
                           bucket_data_payload, named_buckets, runBtn, error, reads,
                           rendered, report_written>>
       ELSE /\ runBtn' = "disabled"
            /\ phase' = "Scanning"
            /\ StartRun
    /\ UNCHANGED <<configVars, uiQueue, open_wbs, notRunVars>>

Reraised_Always(is_std, raised) == raised # "none"

\* The handler of the file loop: if is_std: raise e
Reraised(is_std, raised) == raised # "none" /\ is_std

\* One pass of the file loop of standard or normal mode.  The workbook is
\* closed in the finally clause, so none stays open.
ScanFile ==
    /\ phase = "Scanning" /\ mode # "community" /\ idx <= Len(files)
    /\ LET is_std == mode = "standard"
           o == ScanOne(files[idx], is_std, HeaderCount(is_std, skip_rows),
                        buckets, first_sig_standard)
       IN  /\ buckets' = o.buckets
           /\ first_sig_standard' = o.first
           /\ reads' = Append(reads, Read("worker", "scan", files[idx].name))
           /\ IF Reraised(is_std, o.raised)
              THEN /\ phase' = "Failed"
                   /\ error' = o.raised
                   /\ uiQueue' = Append(uiQueue, "set_ui_idle")
                   /\ idx' = idx
              ELSE /\ idx' = idx + 1
                   /\ UNCHANGED <<phase, error, uiQueue>>
    /\ UNCHANGED <<configVars, tables_by_sheet, bucket_data_payload, named_buckets,
                   runBtn, last_warning, open_wbs, rendered, report_written, notRunVars>>

\* A plausible slip: the "No Data" return forgets to hand set_ui_idle to the UI.
ScanFinish_NoIdle ==
    /\ phase = "Scanning" /\ mode # "community" /\ idx > Len(files)
    /\ ~bucket_data_payload.set
    /\ IF buckets = <<>>
       THEN /\ phase' = "Failed"
            /\ error' = "NoData"
            /\ UNCHANGED <<buckets, bucket_data_payload, uiQueue>>
       ELSE /\ buckets' \in FuzzyBuckets(buckets, is_fuzzy, fuzzy_thresh, fuzzy_col)
            /\ bucket_data_payload' =
                  [set |-> TRUE, buckets |-> buckets', is_std |-> mode = "standard",
                   is_fuzzy |-> is_fuzzy, fuzzy_thresh |-> fuzzy_thresh,
                   target_col_name |-> fuzzy_col]
            /\ uiQueue' = Append(uiQueue, "prompt_table_names")
            /\ UNCHANGED <<phase, error>>
    /\ UNCHANGED <<configVars, idx, first_sig_standard, tables_by_sheet, named_buckets,
                   runBtn, last_warning, reads, open_wbs, rendered, report_written,
                   notRunVars>>

\* After the loop: no bucket ends the run; otherwise the fuzzy pass over every
\* bucket, the payload, and prompt_table_names handed to the UI thread.
ScanFinish ==
    /\ phase = "Scanning" /\ mode # "community" /\ idx > Len(files)
    /\ ~bucket_data_payload.set
    /\ IF buckets = <<>>
       THEN /\ phase' = "Failed"
            /\ error' = "NoData"
            /\ uiQueue' = Append(uiQueue, "set_ui_idle")
            /\ UNCHANGED <<buckets, bucket_data_payload>>
       ELSE /\ buckets' \in FuzzyBuckets(buckets, is_fuzzy, fuzzy_thresh, fuzzy_col)
            /\ bucket_data_payload' =
                  [set |-> TRUE, buckets |-> buckets', is_std |-> mode = "standard",
                   is_fuzzy |-> is_fuzzy, fuzzy_thresh |-> fuzzy_thresh,
                   target_col_name |-> fuzzy_col]
            /\ uiQueue' = Append(uiQueue, "prompt_table_names")
            /\ UNCHANGED <<phase, error>>
    /\ UNCHANGED <<configVars, idx, first_sig_standard, tables_by_sheet, named_buckets,
                   runBtn, last_warning, reads, open_wbs, rendered, report_written,
                   notRunVars>>

\* set_ui_idle, run by the UI thread from its queue.
SetUiIdle ==
    /\ uiQueue # <<>> /\ Head(uiQueue) = "set_ui_idle"
    /\ uiQueue' = Tail(uiQueue)
    /\ runBtn' = "normal"
    /\ UNCHANGED <<configVars, phase, idx, buckets, first_sig_standard, tables_by_sheet,
                   bucket_data_payload, named_buckets, error, last_warning, reads,
                   open_wbs, rendered, report_written, notRunVars>>

NamesDirectly_StdOnly(is_std, n) == is_std

\* is_std or len(buckets) == 1: finalize_export is called without the dialog.
NamesDirectly(is_std, n) == is_std \/ n = 1

\* prompt_table_names, run by the UI thread from its queue.
PromptTableNames ==
    /\ uiQueue # <<>> /\ Head(uiQueue) = "prompt_table_names"
    /\ uiQueue' = Tail(uiQueue)
    /\ LET bs == bucket_data_payload.buckets
       IN  IF OverLimit(Len(bs))
           THEN /\ phase' = "Failed"
                /\ error' = "LimitExceeded"
                /\ runBtn' = "normal"
                /\ UNCHANGED named_buckets
           ELSE IF NamesDirectly(bucket_data_payload.is_std, Len(bs))
           THEN /\ phase' = "Finalizing"
                /\ named_buckets' = DirectNames(bs)
                /\ UNCHANGED <<error, runBtn>>
           ELSE /\ phase' = "AwaitingNaming"
                /\ UNCHANGED <<named_buckets, error, runBtn>>
    /\ UNCHANGED <<configVars, idx, buckets, first_sig_standard, tables_by_sheet,
                   bucket_data_payload, last_warning, reads, open_wbs, rendered,
                   report_written, notRunVars>>

\* What the user can type and choose in the naming dialog for n buckets:
\* distinct names, or one entry left empty, blank, or equal to another once
\* trimmed; at most one header-row menu moved off "1".
TableName(k) == <<"T", Digit(k \div 10), Digit(k % 10)>>

HeaderMenu == 1..5

DialogNames(n) ==
    LET base == [k \in 1..n |-> TableName(k)]
    IN  {base} \cup
        UNION {{[base EXCEPT ![k] = <<>>],
                [base EXCEPT ![k] = <<SP, SP>>],
                [base EXCEPT ![k] = <<SP>> \o TableName((k % n) + 1) \o <<SP>>]}
               : k \in 1..n}

DialogHeaderRows(n) ==
    {[k \in 1..n |-> IF k = j THEN h ELSE 1] : j \in 1..n, h \in HeaderMenu}

\* on_submit: a warning leaves the dialog open; otherwise the dialog closes
\* and finalize_export is called with final_map.
DialogSubmit ==
    /\ phase = "AwaitingNaming"
    /\ \E names \in DialogNames(Len(bucket_data_payload.buckets)),
          hdrs \in DialogHeaderRows(Len(bucket_data_payload.buckets)) :
         LET o == on_submit(bucket_data_payload.buckets, names, hdrs)
         IN  IF o.warning # "none"
             THEN /\ last_warning' = o.warning
                  /\ UNCHANGED <<phase, named_buckets>>
             ELSE /\ phase' = "Finalizing"
                  /\ named_buckets' = o.final_map
                  /\ UNCHANGED last_warning
    /\ UNCHANGED <<configVars, idx, buckets, first_sig_standard, tables_by_sheet,
                   bucket_data_payload, uiQueue, runBtn, error, reads, open_wbs,
                   rendered, report_written, notRunVars>>

\* A plausible slip: the cancellation idles the UI as a success does.
DialogCancel_Done ==
    /\ phase = "AwaitingNaming"
    /\ phase' = "Done"
    /\ runBtn' = "normal"
    /\ UNCHANGED <<configVars, idx, buckets, first_sig_standard, tables_by_sheet,
                   bucket_data_payload, named_buckets, uiQueue, error, last_warning,
                   reads, open_wbs, rendered, report_written, notRunVars>>

\* on_cancel: finalize_export(None) reports the cancellation and idles the UI.
DialogCancel ==
    /\ phase = "AwaitingNaming"
    /\ phase' = "Failed"
    /\ error' = "Cancelled"
    /\ runBtn' = "normal"
    /\ UNCHANGED <<configVars, idx, buckets, first_sig_standard, tables_by_sheet,
                   bucket_data_payload, named_buckets, uiQueue, last_warning, reads,
                   open_wbs, rendered, report_written, notRunVars>>

\* The body of finalize_export, which prompt_table_names and the dialog call
\* on the UI thread: every file of every named bucket is read again, the
\* tables rendered and the report written.  An exception (a file
\* that raises, a report that cannot be written) is reported and idles the UI.
FinalizeExport ==
    /\ phase = "Finalizing"
    /\ \E o \in Rebuild(files, named_buckets, bucket_data_payload), written \in BOOLEAN :
         /\ reads' = reads \o [k \in 1..Len(o.reads) |-> Read("ui", "finalize", o.reads[k])]
         /\ open_wbs' = open_wbs \cup o.leaked
         /\ IF o.ok /\ written
            THEN /\ rendered' = o.tables
                 /\ report_written' = TRUE
                 /\ phase' = "Done"
                 /\ UNCHANGED error
            ELSE /\ phase' = "Failed"
                 /\ error' = "Exception"
                 /\ UNCHANGED <<rendered, report_written>>
    /\ runBtn' = "normal"
    /\ UNCHANGED <<configVars, idx, buckets, first_sig_standard, tables_by_sheet,
                   bucket_data_payload, named_buckets, uiQueue, last_warning, notRunVars>>

(***************************************************************************)
(* Community mode: the template check, the sheet tables, the master table  *)
(***************************************************************************)
PersonalInformation ==
    <<"P", "e", "r", "s", "o", "n", "a", "l", SP,
      "I", "n", "f", "o", "r", "m", "a", "t", "i", "o", "n">>
StandardsGroup ==
    <<"S", "t", "a", "n", "d", "a", "r", "d", "s", SP, "G", "r", "o", "u", "p">>
InternalGroups ==
    <<"I", "n", "t", "e", "r", "n", "a", "l", SP, "G", "r", "o", "u", "p", "s">>
Association == <<"A", "s", "s", "o", "c", "i", "a", "t", "i", "o", "n">>
Expertise == <<"E", "x", "p", "e", "r", "t", "i", "s", "e">>

\* required
Required ==
    <<PersonalInformation, StandardsGroup, InternalGroups, Association, Expertise>>

Sesa == <<"s", "e", "s", "a">>
SesaColumn == <<"S", "E", "S", "A">>
\* The two provenance columns; their first character is a pictograph.
SourceFileColumn == <<"<page>", SP, "S", "o", "u", "r", "c", "e", SP, "F", "i", "l", "e">>
SourceSheetColumn ==
    <<"<receipt>", SP, "S", "o", "u", "r", "c", "e", SP, "S", "h", "e", "e", "t">>
CommunityMaster ==
    <<"C", "o", "m", "m", "u", "n", "i", "t", "y", SP, "M", "a", "s", "t", "e", "r">>
EntriesSuffix == <<SP, "-", SP, "E", "n", "t", "r", "i", "e", "s">>
EntrySep == <<SP, "|", SP>>
EntriesSep == <<";", SP>>

HasSheet(book, s) == \E i \in 1..Len(book.names) : book.names[i] = s
\* wb[s]
SheetOf(book, s) == book.sheets[CHOOSE i \in 1..Len(book.names) : book.names[i] = s]

\* A plausible slip: only the sheet names are tested.
is_community_workbook_NamesOnly(book) ==
    /\ \A r \in 1..Len(Required) :
           \E i \in 1..Len(book.names) : Strip(book.names[i]) = Required[r]
    /\ \A r \in 1..Len(Required) :
           HasSheet(book, Required[r]) /\ SheetOf(book, Required[r]) # <<>>

\* is_community_workbook: every required name is a trimmed sheet name, and the
\* first row of every required sheet has a cell reading "sesa" once trimmed
\* and lower-cased.  A sheet that cannot be fetched by the required name, or
\* has no first row, raises inside the function, which then answers False.
is_community_workbook(book) ==
    /\ \A r \in 1..Len(Required) :
           \E i \in 1..Len(book.names) : Strip(book.names[i]) = Required[r]
    /\ \A r \in 1..Len(Required) :
           /\ HasSheet(book, Required[r])
           /\ SheetOf(book, Required[r]) # <<>>
           /\ LET first == SheetOf(book, Required[r])[1]
              IN  \E c \in 1..Len(first) :
                     /\ first[c].t # "none"
                     /\ Lower(Strip(PyStr(first[c]))) = Sesa

\* find_sesa_idx, and the same search in _read_sheet_table: the position of
\* the first column reading "sesa", 0 when there is none.
find_sesa_idx(cols) ==
    LET hits == {i \in 1..Len(cols) : Lower(Strip(cols[i])) = Sesa}
    IN  IF hits = {} THEN 0 ELSE SetMin(hits)

\* The header without its trailing placeholder columns.
TrimmedCols(cols) ==
    LET named == {i \in 1..Len(cols) :
                     cols[i] # <<>> /\ ~StartsWith(cols[i], ColumnPrefix)}
    IN  IF named = {} THEN cols ELSE SubSeq(cols, 1, SetMax(named))

\* The row loop of _read_sheet_table: blank rows and rows without identifier
\* skipped, a row already seen in this sheet of this file skipped.
RECURSIVE SheetRowsFrom(_, _, _, _, _, _, _, _)
SheetRowsFrom(ws, k, n_cols, sesa_idx, fname, sheet_name, seen, rows) ==
    IF k > Len(ws) THEN rows
    ELSE LET cells == [i \in 1..n_cols |->
                          clean_cell_value(IF i <= Len(ws[k]) THEN ws[k][i] ELSE NoneVal)]
             row_data == cells \o <<fname, sheet_name>>
             skip == \/ ~AnyTruthy(ws[k])
                     \/ sesa_idx # 0 /\ Strip(cells[sesa_idx]) = <<>>
                     \/ row_data \in seen
         IN  IF skip
             THEN SheetRowsFrom(ws, k + 1, n_cols, sesa_idx, fname, sheet_name, seen, rows)
             ELSE SheetRowsFrom(ws, k + 1, n_cols, sesa_idx, fname, sheet_name,
                                seen \cup {row_data}, Append(rows, row_data))

read_sheet_table(ws, fname, sheet_name) ==
    LET cols == TrimmedCols(extract_headers(ws, 1))
    IN  [cols |-> cols \o <<SourceFileColumn, SourceSheetColumn>>,
         rows |-> SheetRowsFrom(ws, 2, Len(cols), find_sesa_idx(cols), fname,
                                sheet_name, {}, <<>>)]

TableIndex(tables, sheet) ==
    IF \E i \in 1..Len(tables) : tables[i].sheet = sheet
    THEN CHOOSE i \in 1..Len(tables) : tables[i].sheet = sheet
    ELSE 0

\* The loop over the required sheets of one valid workbook: the columns of a
\* sheet are those of the first file that had it, the rows are appended.
RECURSIVE ReadRequired(_, _, _, _)
ReadRequired(book, fname, k, tables) ==
    IF k > Len(Required) THEN tables
    ELSE LET t == read_sheet_table(SheetOf(book, Required[k]), fname, Required[k])
             known == IF TableIndex(tables, Required[k]) = 0
                      THEN Append(tables, [sheet |-> Required[k], cols |-> t.cols,
                                           rows |-> <<>>])
                      ELSE tables
         IN  ReadRequired(book, fname, k + 1,
                 [known EXCEPT ![TableIndex(known, Required[k])].rows = @ \o t.rows])

\* One pass of the community file loop: the tables it leaves and the
\* exception it ends with.
CommunityOne(f, tables) ==
    IF f.fault = "load" THEN [tables |-> tables, raised |-> "Exception"]
    ELSE IF ~is_community_workbook(f.book)
         THEN [tables |-> tables, raised |-> "InvalidTemplateError"]
    ELSE IF f.fault = "rows" THEN [tables |-> tables, raised |-> "Exception"]
    ELSE [tables |-> ReadRequired(f.book, f.name, 1, tables), raised |-> "none"]

\* Rows without the repeats of an earlier row, in order.
RECURSIVE UniqueRowsFrom(_, _, _, _)
UniqueRowsFrom(rows, k, seen, unique_rows) ==
    IF k > Len(rows) THEN unique_rows
    ELSE IF rows[k] \in seen THEN UniqueRowsFrom(rows, k + 1, seen, unique_rows)
    ELSE UniqueRowsFrom(rows, k + 1, seen \cup {rows[k]}, Append(unique_rows, rows[k]))

UniqueTables(tables) ==
    [i \in 1..Len(tables) |->
        [tables[i] EXCEPT !.rows = UniqueRowsFrom(tables[i].rows, 1, {}, <<>>)]]

\* build_master_table reads r[si] of every row of every keyed table; a row
\* too short for the index raises IndexError.
MasterRaises(tables) ==
    \E i \in 1..Len(tables) :
        /\ find_sesa_idx(tables[i].cols) # 0
        /\ \E k \in 1..Len(tables[i].rows) :
               find_sesa_idx(tables[i].cols) > Len(tables[i].rows[k])

\* The identifiers a table holds: str(r[si]).strip() of its rows.
TableIds(t) ==
    IF find_sesa_idx(t.cols) = 0 THEN {}
    ELSE {Strip(t.rows[k][find_sesa_idx(t.cols)]) : k \in 1..Len(t.rows)}

\* all_sesa: the non-empty identifiers of every table, sorted.
all_sesa(tables) ==
    SortTokens(SetToSeq(UNION {TableIds(tables[i]) : i \in 1..Len(tables)} \ {<<>>}))

\* The parts of one row's entry: every business column but the one at the
\* identifier's position, when its value is not blank, trimmed.
RECURSIVE EntryParts(_, _, _, _)
EntryParts(r, si, n_biz, j) ==
    IF j > n_biz THEN <<>>
    ELSE LET v == IF j <= Len(r) THEN r[j] ELSE <<>>
         IN  (IF j # si /\ Strip(v) # <<>> THEN <<Strip(v)>> ELSE <<>>)
             \o EntryParts(r, si, n_biz, j + 1)

BusinessCols(cols) ==
    SelectSeq(cols, LAMBDA c : c \notin {SourceFileColumn, SourceSheetColumn})

\* agg_maps[out_col].get(sesa, ""): the distinct non-empty entries of the
\* identifier's rows in table t, sorted and joined.
AggregateCell(t, sesa) ==
    LET si == find_sesa_idx(t.cols)
        n_biz == Len(BusinessCols(t.cols))
        entries == {Join(EntryParts(t.rows[k], si, n_biz, 1), EntrySep) :
                       k \in {q \in 1..Len(t.rows) : Strip(t.rows[q][si]) = sesa}}
                   \ {<<>>}
    IN  Join(SortTokens(SetToSeq(entries)), EntriesSep)

\* The tables that give an aggregate column, in order: every keyed table but
\* the base sheet's.
AggregateTables(tables) ==
    SelectSeq(tables, LAMBDA t : t.sheet # PersonalInformation
                                 /\ find_sesa_idx(t.cols) # 0)

RECURSIVE AppendNew(_, _)
\* for c in agg_cols: if c not in final_cols: final_cols.append(c)
AppendNew(final_cols, agg_cols) ==
    IF agg_cols = <<>> THEN final_cols
    ELSE AppendNew(IF \E i \in 1..Len(final_cols) : final_cols[i] = Head(agg_cols)
                   THEN final_cols ELSE Append(final_cols, Head(agg_cols)),
                   Tail(agg_cols))

\* The start of a master row: the identifier's last row of the base sheet,
\* padded to the base columns, else blanks with the identifier in its column.
MasterBaseRow(has_base, base_rows, base_cols, base_sesa_idx, out_sesa_idx, sesa) ==
    LET mine == IF has_base /\ base_sesa_idx # 0
                THEN {k \in 1..Len(base_rows) : Strip(base_rows[k][base_sesa_idx]) = sesa}
                ELSE {}
        blank == [i \in 1..Len(base_cols) |-> <<>>]
    IN  IF mine # {}
        THEN LET row == base_rows[SetMax(mine)]
             IN  row \o [i \in 1..(Len(base_cols) - Len(row)) |-> <<>>]
        ELSE IF out_sesa_idx = 0 THEN blank
        ELSE IF out_sesa_idx <= Len(blank) THEN [blank EXCEPT ![out_sesa_idx] = sesa]
        ELSE <<sesa>> \o blank

build_master_table(tables) ==
    LET at == TableIndex(tables, PersonalInformation)
        has_base == at # 0
        base_cols == IF has_base THEN tables[at].cols ELSE <<SesaColumn>>
        base_rows == IF has_base THEN tables[at].rows ELSE <<>>
        base_sesa_idx == find_sesa_idx(base_cols)
        agg == AggregateTables(tables)
        agg_cols == [i \in 1..Len(agg) |-> agg[i].sheet \o EntriesSuffix]
        keyed_cols == IF find_sesa_idx(base_cols) = 0
                      THEN <<SesaColumn>> \o base_cols ELSE base_cols
        final_cols == AppendNew(keyed_cols, agg_cols)
        out_sesa_idx == find_sesa_idx(final_cols)
        ids == all_sesa(tables)
    IN  [cols |-> final_cols,
         rows |-> [n \in 1..Len(ids) |->
                     MasterBaseRow(has_base, base_rows, base_cols, base_sesa_idx,
                                   out_sesa_idx, ids[n])
                     \o [i \in 1..Len(agg) |-> AggregateCell(agg[i], ids[n])]]]

\* One pass of the file loop of community mode.  Any exception is raised
\* again and ends the run; the workbook is closed in the finally clause.
CommunityReadFile ==
    /\ phase = "Scanning" /\ mode = "community" /\ idx <= Len(files)
    /\ LET o == CommunityOne(files[idx], tables_by_sheet)
       IN  /\ reads' = Append(reads, Read("worker", "scan", files[idx].name))
           /\ IF o.raised # "none"
              THEN /\ phase' = "Failed"
                   /\ error' = o.raised
                   /\ uiQueue' = Append(uiQueue, "set_ui_idle")
                   /\ UNCHANGED <<idx, tables_by_sheet>>
              ELSE /\ idx' = idx + 1
                   /\ tables_by_sheet' = o.tables
                   /\ UNCHANGED <<phase, error, uiQueue>>
    /\ UNCHANGED <<configVars, buckets, first_sig_standard, bucket_data_payload,
                   named_buckets, runBtn, last_warning, open_wbs, rendered,
                   report_written, notRunVars>>

\* After the community loop: the rows of every sheet made unique, the master
\* table added, and export_dashboard_direct handed to the UI thread.
CommunityFinish ==
    /\ phase = "Scanning" /\ mode = "community" /\ idx > Len(files)
    /\ named_buckets = <<>>
    /\ LET unique == UniqueTables(tables_by_sheet)
       IN  IF tables_by_sheet = <<>> \/ MasterRaises(unique)
           THEN /\ phase' = "Failed"
                /\ error' = IF tables_by_sheet = <<>> THEN "NoData" ELSE "Exception"
                /\ uiQueue' = Append(uiQueue, "set_ui_idle")
                /\ tables_by_sheet' = unique
                /\ UNCHANGED named_buckets
           ELSE /\ tables_by_sheet' =
                      Append(unique, [sheet |-> CommunityMaster,
                                      cols |-> build_master_table(unique).cols,
                                      rows |-> build_master_table(unique).rows])
                /\ named_buckets' =
                      [i \in 1..Len(tables_by_sheet') |->
                          [name |-> tables_by_sheet'[i].sheet,
                           cols |-> tables_by_sheet'[i].cols,
                           rows |-> tables_by_sheet'[i].rows]]
                /\ uiQueue' = Append(uiQueue, "export_dashboard_direct")
                /\ UNCHANGED <<phase, error>>
    /\ UNCHANGED <<configVars, idx, buckets, first_sig_standard, bucket_data_payload,
                   runBtn, last_warning, reads, open_wbs, rendered, report_written,
                   notRunVars>>

\* export_dashboard_direct, run by the UI thread from its queue: the tables
\* are rendered and the report written, or the failure reported.
ExportDashboardDirect ==
    /\ uiQueue # <<>> /\ Head(uiQueue) = "export_dashboard_direct"
    /\ uiQueue' = Tail(uiQueue)
    /\ \E written \in BOOLEAN :
         IF written
         THEN /\ rendered' = named_buckets
              /\ report_written' = TRUE
              /\ phase' = "Done"
              /\ UNCHANGED error
         ELSE /\ phase' = "Failed"
              /\ error' = "Exception"
              /\ UNCHANGED <<rendered, report_written>>
    /\ runBtn' = "normal"
    /\ UNCHANGED <<configVars, idx, buckets, first_sig_standard, tables_by_sheet,
                   bucket_data_payload, named_buckets, last_warning, reads, open_wbs,
                   notRunVars>>

\* Workbooks of community mode.
cSesaUpper == TextCell(SesaColumn)
cSesaLower == TextCell(Sesa)
cNm == TextCell(<<"N", "m">>)
cGr == TextCell(<<"G", "r">>)
cLv == TextCell(<<"L", "v">>)
cS1 == TextCell(<<"S", "1">>)
cS2 == TextCell(<<"S", "2">>)
cS3 == TextCell(<<"S", "3">>)
cS4 == TextCell(<<"S", "4">>)
cAn == TextCell(<<"A", "n">>)
cBo == TextCell(<<"B", "o">>)
cG1 == TextCell(<<"G", "1">>)
cG2 == TextCell(<<"G", "2">>)
cL1 == TextCell(<<"L", "1">>)

\* Base sheet: a repeated row and a row without identifier.
piRows == << <<cSesaUpper, cNm>>, <<cS1, cAn>>, <<cS2, cBo>>, <<NoneVal, cAn>>,
             <<cS1, cAn>> >>
\* Base sheet: one identifier on two different rows.
piTwice == << <<cSesaUpper, cNm>>, <<cS1, cAn>>, <<cS1, cBo>> >>
\* Base sheet with the identifier in the second column.
piSwapped == << <<cNm, cSesaUpper>>, <<cBo, cS4>> >>
\* Topic sheet: two entries for S1, one of them twice, and an identifier the
\* base sheets do not have.
sgRows == << <<cSesaUpper, cGr, cLv>>, <<cS1, cG2, NoneVal>>, <<cS1, cG1, cL1>>,
             <<cS3, cG1, cL1>>, <<cS1, cG1, cL1>> >>
\* Topic sheet of the identifier column alone, lower-cased, with one row.
igRows == << <<cSesaLower>>, <<cS2>> >>
\* Topic sheet with a trailing unnamed column.
exRows == << <<cSesaUpper, cGr, NoneVal>>, <<cS2, cG1, NoneVal>> >>
keyOnly == << <<cSesaUpper>> >>
noKey == << <<cNm>>, <<cAn>> >>

Book(names, sheets, fault) ==
    [ws |-> sheets[1], dims |-> TRUE, fault |-> fault,
     book |-> [names |-> names, sheets |-> sheets]]

bkFull == Book(Required, <<piRows, sgRows, igRows, keyOnly, exRows>>, "none")
bkTwice == Book(Required, <<piTwice, sgRows, keyOnly, keyOnly, keyOnly>>, "none")
bkSwapped == Book(Required, <<piSwapped, keyOnly, keyOnly, keyOnly, keyOnly>>, "none")
bkBroken == Book(Required, <<piRows, sgRows, igRows, keyOnly, exRows>>, "rows")
bkMissing == Book(SubSeq(Required, 1, 4), <<piRows, sgRows, igRows, keyOnly>>, "none")
bkNoKey == Book(Required, <<piRows, sgRows, igRows, keyOnly, noKey>>, "none")
bkPaddedName ==
    Book(<<PersonalInformation, StandardsGroup, InternalGroups, Association,
           Expertise \o <<SP>> >>,
         <<piRows, sgRows, igRows, keyOnly, exRows>>, "none")

BookCatalogue ==
    {bkFull, bkTwice, bkSwapped, bkBroken, bkMissing, bkNoKey, bkPaddedName,
     shUnreadable}

BookScenarios == {Named(s) : s \in SeqsUpTo(BookCatalogue, MaxFiles)}

\* The user's settings when the application is used: the mode, the text of the
\* header-row entry, the fuzzy switch, and the files selected.
FuzzyColumns == {<<"C", "o">>}

Init ==
    /\ mode \in {"standard", "normal", "community"}
    /\ is_fuzzy \in BOOLEAN
    /\ fuzzy_thresh = 85
    /\ fuzzy_col \in FuzzyColumns
    /\ \/ /\ skip_rows \in RowsTexts
          /\ files \in (IF mode = "community" THEN BookScenarios ELSE SheetScenarios)
       \/ /\ skip_rows \in OtherRowsTexts
          /\ files = Named(IF mode = "community" THEN <<bkFull>> ELSE <<shRepeats>>)
    /\ RunFresh
    /\ CleanIdle /\ SigIdle /\ FuzzyIdle /\ RowsIdle

Next ==
    \/ OnRunClick
    \/ ScanFile
    \/ ScanFinish
    \/ SetUiIdle
    \/ PromptTableNames
    \/ DialogSubmit
    \/ DialogCancel
    \/ FinalizeExport
    \/ CommunityReadFile
    \/ CommunityFinish
    \/ ExportDashboardDirect

Spec == Init /\ [][Next]_vars

\* The user closing the naming dialog for good: a cancel, or a submit that
\* passes the name validation.
DialogAnswer ==
    \/ DialogCancel
    \/ DialogSubmit /\ phase' = "Finalizing"

\* Where the worker thread stands in worker_process_files: each of its steps
\* can be taken exactly when its guard holds.
ScanFileReady == phase = "Scanning" /\ mode # "community" /\ idx <= Len(files)

ScanFinishReady ==
    /\ phase = "Scanning" /\ mode # "community" /\ idx > Len(files)
    /\ ~bucket_data_payload.set

CommunityReadFileReady == phase = "Scanning" /\ mode = "community" /\ idx <= Len(files)

CommunityFinishReady ==
    /\ phase = "Scanning" /\ mode = "community" /\ idx > Len(files)
    /\ named_buckets = <<>>

\* The worker thread, once started, runs to its return (src 741-745): weak
\* fairness of each of its steps, the enabling condition written as the guard.
WorkerFairness ==
    /\ <>[]ScanFileReady => []<><<ScanFile>>_vars
    /\ <>[]ScanFinishReady => []<><<ScanFinish>>_vars
    /\ <>[]CommunityReadFileReady => []<><<CommunityReadFile>>_vars
    /\ <>[]CommunityFinishReady => []<><<CommunityFinish>>_vars

\* The Tk event loop runs every callback handed to it with root.after, and a
\* callback that calls finalize_export runs it to its end.
UiFairness ==
    /\ WF_vars(SetUiIdle) /\ WF_vars(PromptTableNames)
    /\ WF_vars(ExportDashboardDirect)
    /\ <>[](phase = "Finalizing") => []<><<FinalizeExport>>_vars

\* The user eventually answers a naming dialog that stays open.
UserFairness == <>[](phase = "AwaitingNaming") => []<><<DialogAnswer>>_vars

\* The selections the runs are followed to their end from: every short
\* selection, the longer ones, the wide ones and two pairs of templates.
MaxLiveFiles == 1

LiveSheetScenarios ==
    {Named(s) : s \in SeqsUpTo(FileCatalogue, MaxLiveFiles) \cup LongSelections}
        \cup {Named([k \in 1..n |-> WideSheet(k)]) : n \in WideCounts}

LiveBookScenarios ==
    {Named(s) : s \in SeqsUpTo(BookCatalogue, MaxLiveFiles)
                       \cup {<<bkFull, bkTwice>>, <<bkFull, bkMissing>>}}

LiveInit ==
    /\ mode \in {"standard", "normal", "community"}
    /\ skip_rows = <<"1">>
    /\ is_fuzzy \in BOOLEAN
    /\ fuzzy_thresh = 85
    /\ fuzzy_col \in FuzzyColumns
    /\ files \in (IF mode = "community" THEN LiveBookScenarios ELSE LiveSheetScenarios)
    /\ RunFresh
    /\ CleanIdle /\ SigIdle /\ FuzzyIdle /\ RowsIdle

\* The runs under the scheduling above.
SpecLive == LiveInit /\ [][Next]_vars /\ WorkerFairness /\ UiFairness /\ UserFairness

(***************************************************************************)
(* Claims about the runs                                                   *)
(***************************************************************************)
\* The files the file loop has opened so far in this run, and the files
\* finalize_export has opened again.
Scanned == Len(SelectSeq(reads, LAMBDA r : r.step = "scan"))
Reread == SelectSeq(reads, LAMBDA r : r.step = "finalize")

\* What a file shows to the file loop under header count h: whether it gets
\* as far as a signature, and the signature.
SigOf(f, h) == extract_headers(f.ws, h)
ReachesSig(f, h) == f.fault # "load" /\ ~(f.dims /\ Len(f.ws) < h) /\ SigOf(f, h) # <<>>

\* Standard mode: file k is scanned, an earlier scanned file gave the first
\* signature, and file k's signature is another one.
MismatchAt(k) ==
    /\ k <= Scanned /\ ReachesSig(files[k], 1)
    /\ \E j \in 1..(k - 1) :
          /\ ReachesSig(files[j], 1)
          /\ \A i \in 1..(j - 1) : ~ReachesSig(files[i], 1)
          /\ SigOf(files[k], 1) # SigOf(files[j], 1)

\* C1: in standard mode, once a scanned file's signature differs from that of
\* the first file that gave one, that file is the last one read, the run has
\* failed with ColumnMismatchError, and nothing was finalized, rendered or
\* written.
C1_StrictFailFast ==
    mode = "standard" =>
        \A k \in 1..Len(files) :
            MismatchAt(k) =>
                /\ Scanned = k
                /\ phase = "Failed" /\ error = "ColumnMismatchError"
                /\ named_buckets = <<>> /\ Reread = <<>>
                /\ rendered = <<>> /\ ~report_written

\* The second of at least three files is the one that differs.
C1_Witness ==
    /\ mode = "standard" /\ Len(files) >= 3 /\ MismatchAt(2)
    /\ error = "ColumnMismatchError"

\* The header count of the run, and the files the scan accepted: read without
\* error as far as their rows.
RunHeaderCount == HeaderCount(mode = "standard", skip_rows)
Accepted ==
    {k \in 1..Len(files) : ReachesSig(files[k], RunHeaderCount) /\ files[k].fault = "none"}
ScanDone == mode # "community" /\ bucket_data_payload.set

BucketsListing(k) ==
    {b \in 1..Len(buckets) :
        \E n \in 1..Len(buckets[b].files) : buckets[b].files[n] = files[k].name}
RowsFrom(b, k) ==
    Len(SelectSeq(buckets[b].rows, LAMBDA r : r[Len(r)] = files[k].name))

\* C3: after Scanning there are as many buckets as distinct signatures among
\* the accepted files, every accepted file is listed in the bucket of its
\* signature and in no other, and the bucket holds every row the file's own
\* scan emitted, whatever the other files of the bucket hold.
C3_BucketsPerSignature ==
    ScanDone =>
        /\ Len(buckets) = Cardinality({SigOf(files[k], RunHeaderCount) : k \in Accepted})
        /\ \A k \in Accepted :
              /\ \A b \in 1..Len(buckets) :
                    b \in BucketsListing(k)
                        <=> buckets[b].sig = SigOf(files[k], RunHeaderCount)
              /\ \A b \in BucketsListing(k) :
                    RowsFrom(b, k) =
                        Len(ScanRows(files[k].ws, RunHeaderCount,
                                     Len(SigOf(files[k], RunHeaderCount)), files[k].name))

\* Two accepted files of one bucket with a row of the same data each.
C3_Witness ==
    /\ ScanDone /\ Len(buckets) = 1
    /\ \E k, j \in Accepted :
          /\ k # j
          /\ \E m, n \in 1..Len(buckets[1].rows) :
                /\ m # n
                /\ buckets[1].rows[m][Len(buckets[1].rows[m])] = files[k].name
                /\ buckets[1].rows[n][Len(buckets[1].rows[n])] = files[j].name
                /\ SubSeq(buckets[1].rows[m], 1, Len(buckets[1].rows[m]) - 1)
                     = SubSeq(buckets[1].rows[n], 1, Len(buckets[1].rows[n]) - 1)

\* Scanning ended with more buckets than prompt_table_names accepts.
TooManyBuckets == bucket_data_payload.set /\ Len(bucket_data_payload.buckets) > MaxBuckets
PromptPending == \E i \in 1..Len(uiQueue) : uiQueue[i] = "prompt_table_names"

\* C5: in normal mode, when Scanning ends with more than 15 buckets the run
\* fails with the limit error once prompt_table_names has run, without the
\* naming dialog and without any file read again; with 15 buckets or fewer
\* the limit error is never reported.
C5_BucketLimit ==
    mode = "normal" =>
        /\ TooManyBuckets =>
              /\ \/ PromptPending /\ phase = "Scanning"
                 \/ phase = "Failed" /\ error = "LimitExceeded"
              /\ named_buckets = <<>> /\ Reread = <<>>
              /\ last_warning = "none" /\ ~report_written
        /\ ~TooManyBuckets => error # "LimitExceeded"

C5_Witness ==
    /\ mode = "normal" /\ Len(bucket_data_payload.buckets) = MaxBuckets + 1
    /\ phase = "Failed" /\ error = "LimitExceeded" /\ Reread = <<>>

\* The identifiers a sheet holds: the normalized cells under its own "sesa"
\* header, of its rows after the header row.
SheetIds(ws) ==
    LET si == find_sesa_idx(extract_headers(ws, 1))
    IN  IF si = 0 THEN {}
        ELSE {clean_cell_value(ws[k][si]) : k \in {q \in 2..Len(ws) : si <= Len(ws[q])}}
             \ {<<>>}

\* The identifiers observed in the required sheets of the selected files, and
\* those observed in their base sheets.
ObservedIds ==
    UNION {SheetIds(SheetOf(files[k].book, Required[r])) :
              k \in 1..Len(files), r \in 1..Len(Required)}
ObservedBaseIds ==
    UNION {SheetIds(SheetOf(files[k].book, PersonalInformation)) : k \in 1..Len(files)}

MasterBuilt == mode = "community" /\ named_buckets # <<>>
Master == tables_by_sheet[Len(tables_by_sheet)]
MasterIdAt(n) == Master.rows[n][find_sesa_idx(Master.cols)]
BaseWidth == Len(tables_by_sheet[TableIndex(tables_by_sheet, PersonalInformation)].cols)

\* C4: in community mode the master table has one row for every identifier
\* observed in a required sheet of a selected file and no other row, no two
\* rows of one identifier, and the row of an identifier no base sheet holds
\* has every base field empty but the identifier.
C4_MasterOneRowPerIdentifier ==
    MasterBuilt =>
        /\ {MasterIdAt(n) : n \in 1..Len(Master.rows)} = ObservedIds
        /\ Cardinality(ObservedIds) = Len(Master.rows)
        /\ \A n \in 1..Len(Master.rows) :
              MasterIdAt(n) \notin ObservedBaseIds =>
                  \A i \in 1..BaseWidth :
                      i # find_sesa_idx(Master.cols) => Master.rows[n][i] = <<>>

\* A master table built from two workbooks, with an identifier that only a
\* topic sheet holds.
C4_Witness ==
    /\ MasterBuilt /\ Len(files) >= 2
    /\ ObservedIds \ ObservedBaseIds # {}
    /\ Len(Master.rows) >= 2

(***************************************************************************)
(* Specification SpecRows: the row loops applied to one sheet              *)
(***************************************************************************)
\* The most rows under the header row.
MaxRows == 3

RowCatalogue ==
    { <<cAcme, cX>>, <<cAcmePadded, cX>>, <<cAcme, cX, cX>>, <<cBo, cX>>,
      <<cBo>>, <<cBo, NoneVal>>, <<NoneVal, NoneVal>> }

RowHeaders == { <<cCo, cRole>>, <<cSesaUpper, cRole>> }

RowsFile == FileName(1)

RowsInit ==
    /\ rws \in {<<h>> \o body : h \in RowHeaders, body \in SeqsUpTo(RowCatalogue, MaxRows)}
    /\ rkind = "none" /\ rout = <<>>
    /\ CleanIdle /\ SigIdle /\ FuzzyIdle /\ RunIdle

\* The row loop of worker_process_files on the sheet, with one header row.
RowsScan ==
    /\ rkind = "none"
    /\ rkind' = "scan"
    /\ rout' = ScanRows(rws, 1, Len(extract_headers(rws, 1)), RowsFile)
    /\ UNCHANGED <<rws, notRowsVars>>

\* _read_sheet_table on the sheet.
RowsSheet ==
    /\ rkind = "none"
    /\ rkind' = "sheet"
    /\ rout' = read_sheet_table(rws, RowsFile, Expertise).rows
    /\ UNCHANGED <<rws, notRowsVars>>

RowsNext == RowsScan \/ RowsSheet

SpecRows == RowsInit /\ [][RowsNext]_vars

\* The tuples the loop builds, in the order of their rows: one per row that is
\* not blank (and, in a sheet table, has an identifier).
RowTuple(k) ==
    [i \in 1..Len(rws[1]) |->
        clean_cell_value(IF i <= Len(rws[k]) THEN rws[k][i] ELSE NoneVal)]
    \o (IF rkind = "sheet" THEN <<RowsFile, Expertise>> ELSE <<RowsFile>>)
TupleRows ==
    {k \in 2..Len(rws) :
        /\ \E i \in 1..Len(rws[k]) : Truthy(rws[k][i])
        /\ (rkind = "sheet" /\ find_sesa_idx(extract_headers(rws, 1)) # 0)
              => RowTuple(k)[find_sesa_idx(extract_headers(rws, 1))] # <<>>}
FirstRow(t) == SetMin({k \in TupleRows : RowTuple(k) = t})

\* C2: of the rows of one file whose tuples (the normalized cells and the
\* file name) are equal exactly one is emitted, every emitted row is the
\* tuple of a row, and the emitted rows stand in the order of the first rows
\* of their tuples.
C2_RowDedup ==
    rkind # "none" =>
        /\ \A k \in TupleRows :
              Cardinality({n \in 1..Len(rout) : rout[n] = RowTuple(k)}) = 1
        /\ \A n \in 1..Len(rout) : \E k \in TupleRows : RowTuple(k) = rout[n]
        /\ \A m, n \in 1..Len(rout) : m < n => FirstRow(rout[m]) < FirstRow(rout[n])

\* Two rows of different cells and one tuple, around a row of another tuple.
C2_Witness ==
    /\ rkind = "scan" /\ Len(rout) = 2
    /\ \E j, k \in TupleRows :
          /\ j + 1 < k /\ rws[j] # rws[k] /\ RowTuple(j) = RowTuple(k)
          /\ j + 1 \in TupleRows /\ RowTuple(j + 1) # RowTuple(j)

(***************************************************************************)
(* Claims about the lifecycle of a run                                     *)
(***************************************************************************)
\* on_run_click starting the next run once the last one has ended.
NewRun ==
    /\ phase \in {"Done", "Failed"} /\ phase' = "Scanning"
    /\ runBtn = "normal" /\ runBtn' = "disabled"

\* The edges the lifecycle is said to have.
StatedEdges ==
    { <<"Idle", "Scanning">>, <<"Scanning", "AwaitingNaming">>,
      <<"Scanning", "Finalizing">>, <<"AwaitingNaming", "Finalizing">>,
      <<"Finalizing", "Done">>, <<"Idle", "Failed">>, <<"Scanning", "Failed">>,
      <<"AwaitingNaming", "Failed">>, <<"Finalizing", "Failed">> }

\* Finalizing is entered only with the file loop over and its payload stored.
FinalizingAfterScanning ==
    (phase' = "Finalizing" /\ phase # "Finalizing")
        => (idx > Len(files) /\ bucket_data_payload.set)

\* C11 as stated: a step changes the phase only along a stated edge (or starts
\* the next run), and Finalizing follows a completed Scanning.
C11_Original ==
    [][/\ (phase' # phase) => (<<phase, phase'>> \in StatedEdges \/ NewRun)
       /\ FinalizingAfterScanning]_vars

\* Community mode: the tables built while Scanning are rendered by
\* export_dashboard_direct, with no Finalizing in between.
CommunityExportEdge ==
    /\ mode = "community" /\ phase = "Scanning" /\ phase' = "Done"
    /\ idx > Len(files)

\* C11 amended: the phase changes only along Idle to Scanning, Scanning to
\* AwaitingNaming or Finalizing, AwaitingNaming to Finalizing, Finalizing to
\* Done, any non-terminal phase to Failed, and, in community mode only,
\* Scanning to Done once every file is read; Finalizing is entered only after
\* a completed Scanning, and outside community mode Done is reached only
\* from Finalizing.
C11_Lifecycle ==
    [][/\ (phase' # phase)
            => (<<phase, phase'>> \in StatedEdges \/ NewRun \/ CommunityExportEdge)
       /\ FinalizingAfterScanning
       /\ (phase' = "Done" /\ phase # "Done" /\ mode # "community")
            => phase = "Finalizing"]_vars

\* A run that went through the naming dialog and Finalizing to Done.
C11_Witness ==
    /\ mode = "normal" /\ phase = "Done"
    /\ Len(named_buckets) >= 2 /\ Reread # <<>>

\* A run is under way / has ended with the UI idle again.
RunStarted == phase \in {"Scanning", "AwaitingNaming", "Finalizing"}

RunEnded == phase \in {"Done", "Failed"} /\ runBtn = "normal"

\* C12: every started run eventually reaches Done or Failed with the Run
\* button enabled again, given that an open naming dialog is eventually
\* answered by a valid submit or a cancel.
C12_RunTerminates == RunStarted ~> RunEnded

\* A run that waited in the naming dialog, was told of a bad name, and ended.
C12_Witness ==
    /\ RunEnded /\ mode = "normal" /\ Len(bucket_data_payload.buckets) >= 2
    /\ last_warning \in {"Missing Name", "Duplicate Name"}

\* The step of prompt_table_names.
PromptStep == PromptPending /\ ~PromptPending'

\* Scanning left between 2 and MaxBuckets buckets in permissive mode.
DialogCase ==
    /\ mode = "normal"
    /\ Len(bucket_data_payload.buckets) \in 2..MaxBuckets

\* C13: AwaitingNaming is entered only by prompt_table_names, and by it exactly
\* when the mode is permissive and Scanning left between 2 and 15 buckets; in
\* strict mode, or with exactly one bucket, that step enters Finalizing with
\* the one table named "Main Table".
C13_NamingOnlyWhenNeeded ==
    [][/\ (phase' = "AwaitingNaming" /\ phase # "AwaitingNaming") => PromptStep
       /\ PromptStep =>
            /\ (phase' = "AwaitingNaming") <=> DialogCase
            /\ (mode = "standard" \/ Len(bucket_data_payload.buckets) = 1)
                  => /\ phase' = "Finalizing"
                     /\ Len(named_buckets') = 1
                     /\ named_buckets'[1].name = MainTable]_vars

\* Permissive mode, one bucket: Finalizing was entered without the dialog.
C13_Witness ==
    /\ mode = "normal" /\ phase = "Finalizing"
    /\ Len(bucket_data_payload.buckets) = 1
    /\ Len(files) >= 2 /\ last_warning = "none"

\* named_buckets holds one entry per bucket of the payload, in bucket order,
\* each under a non-empty name no other entry has.
NamedPerBucket ==
    LET bs == bucket_data_payload.buckets
    IN  /\ Len(named_buckets) = Len(bs)
        /\ \A k \in 1..Len(bs) :
              /\ named_buckets[k].name # <<>>
              /\ named_buckets[k].files = bs[k].files
              /\ named_buckets[k].cols = bs[k].cols
              /\ \A j \in 1..Len(bs) :
                    j # k => named_buckets[j].name # named_buckets[k].name

\* C14: while the dialog is open (a missing or duplicate name only leaves a
\* warning) no file has been read again and no map is passed on; once
\* Finalizing has started after a dialog, the map it was given has exactly one
\* entry per bucket, each with a non-empty name that no other bucket has.
C14_NamesValidatedFirst ==
    /\ phase = "AwaitingNaming" => (Reread = <<>> /\ named_buckets = <<>>)
    /\ (DialogCase /\ bucket_data_payload.set
            /\ (phase \in {"Finalizing", "Done"} \/ Reread # <<>>))
         => NamedPerBucket

\* A duplicate name was reported, then valid names were submitted and the
\* files read again.
C14_Witness ==
    /\ DialogCase /\ last_warning = "Duplicate Name"
    /\ phase = "Done" /\ Reread # <<>>

\* The file has no sheet of a required name.
LacksRequiredSheet(book) == \E r \in 1..Len(Required) : ~HasSheet(book, Required[r])

\* A required sheet of the file has no identifier column in its first row.
LacksIdentifierColumn(book) ==
    \E r \in 1..Len(Required) :
        /\ HasSheet(book, Required[r])
        /\ LET ws == SheetOf(book, Required[r])
           IN  \/ ws = <<>>
               \/ \A c \in 1..Len(ws[1]) :
                     ws[1][c].t = "none" \/ Lower(Strip(PyStr(ws[1][c]))) # Sesa

\* C15: in community mode, a file that could be opened and lacks a required
\* sheet, or an identifier column in the first row of a required sheet, ends
\* the run Failed with InvalidTemplateError: it is the last file read, and
\* nothing is handed to the renderer or written.
C15_InvalidTemplateAborts ==
    mode = "community" =>
        \A k \in 1..Scanned :
            (/\ files[k].fault # "load"
             /\ LacksRequiredSheet(files[k].book) \/ LacksIdentifierColumn(files[k].book))
            => /\ Scanned = k /\ Reread = <<>>
               /\ phase = "Failed" /\ error = "InvalidTemplateError"
               /\ named_buckets = <<>> /\ rendered = <<>> /\ ~report_written
               /\ \A i \in 1..Len(uiQueue) : uiQueue[i] # "export_dashboard_direct"

\* A valid template was read, then one without identifier column ended the run.
C15_Witness ==
    /\ mode = "community" /\ Len(files) = 2 /\ Scanned = 2
    /\ is_community_workbook(files[1].book) /\ files[1].fault = "none"
    /\ files[2].fault = "none" /\ ~LacksRequiredSheet(files[2].book)
    /\ LacksIdentifierColumn(files[2].book)
    /\ phase = "Failed" /\ tables_by_sheet # <<>>

\* Reading the file in the file loop raises: it cannot be opened, or its rows
\* cannot be iterated once its header has been taken.
RaisesReading(f) ==
    \/ f.fault = "load"
    \/ f.fault = "rows" /\ ReachesSig(f, RunHeaderCount)

\* C16: in permissive mode a file whose reading raises leaves no row in any
\* bucket, the loop goes on to every remaining file, and no exception of the
\* loop ends the run; in strict mode such a file, and in community mode any
\* file that raises, is the last one read and the run has failed with its
\* exception.
C16_SkipOrAbort ==
    /\ mode = "normal" =>
          /\ \A k \in 1..Scanned :
                RaisesReading(files[k]) => \A b \in 1..Len(buckets) : RowsFrom(b, k) = 0
          /\ (phase # "Idle" /\ ~ScanFileReady) => Scanned = Len(files)
          /\ Reread = <<>> => error \notin {"Exception", "ColumnMismatchError"}
    /\ mode = "standard" =>
          \A k \in 1..Scanned :
              RaisesReading(files[k])
                  => /\ Scanned = k /\ Reread = <<>> /\ phase = "Failed"
                     /\ error \in {"Exception", "ColumnMismatchError"}
    /\ mode = "community" =>
          \A k \in 1..Scanned :
              files[k].fault # "none"
                  => /\ Scanned = k /\ Reread = <<>> /\ phase = "Failed"
                     /\ error \in {"Exception", "InvalidTemplateError"}

\* Permissive mode: the second of three files raised and the third was read
\* and left rows.
C16_Witness ==
    /\ mode = "normal" /\ Len(files) = 3 /\ Scanned = 3
    /\ RaisesReading(files[2])
    /\ \E b \in 1..Len(buckets) : RowsFrom(b, 3) > 0

\* C17: no workbook is left open between two file steps or when the run has
\* ended: every workbook a step of Scanning, of the template loop or of the
\* Finalizing re-read opened is closed when the step ends, whether it ended
\* normally, with a skip or with an exception.
C17_WorkbooksClosed == open_wbs = {}

\* The Finalizing re-read ended with an exception raised by the rows of the
\* file it had open.
C17_Witness ==
    /\ phase = "Failed" /\ error = "Exception" /\ Reread # <<>>
    /\ \E k \in 1..Len(files) :
          /\ files[k].name = Reread[Len(Reread)].file
          /\ files[k].fault = "rows"

\* The worker thread has a step of worker_process_files left to take.
WorkerRunning ==
    ScanFileReady \/ ScanFinishReady \/ CommunityReadFileReady \/ CommunityFinishReady

\* The UI thread has a callback that uses the buckets queued or under way.
UiOnBuckets ==
    \/ phase \in {"AwaitingNaming", "Finalizing"}
    \/ \E i \in 1..Len(uiQueue) :
          uiQueue[i] \in {"prompt_table_names", "export_dashboard_direct"}

\* The UI thread uses the buckets only when the worker has no step left.
ThreadsApart == ~(WorkerRunning /\ UiOnBuckets)

\* C18: every file read of a run, the reads of the Finalizing re-read
\* included, is made by the worker thread, and the UI thread uses the buckets
\* only when the worker has no step left to take.
C18_WorkerDoesAllReads ==
    /\ \A i \in 1..Len(reads) : reads[i].thread = "worker"
    /\ ThreadsApart

\* Files were read again in Finalizing.
C18_Witness == phase = "Done" /\ Reread # <<>> /\ Scanned = Len(files)

\* A selected file holds the same line twice under its header.
RepeatsALine(f) ==
    \E m, n \in 1..Len(f.ws) :
        /\ m # n /\ m > RunHeaderCount /\ n > RunHeaderCount
        /\ AnyTruthy(f.ws[m]) /\ f.ws[m] = f.ws[n]

\* C19: no table rendered after Finalizing holds two rows that are equal in
\* every field, the source file name included.
C19_FinalTablesDeduplicated ==
    (mode # "community" /\ phase = "Done") =>
        \A t \in 1..Len(rendered) :
            \A m, n \in 1..Len(rendered[t].rows) :
                m # n => rendered[t].rows[m] # rendered[t].rows[n]

\* A run ended Done on a file that repeats a line.
C19_Witness ==
    /\ mode # "community" /\ phase = "Done" /\ rendered # <<>>
    /\ \E k \in 1..Len(files) : RepeatsALine(files[k])

\* The kinds of column of the master table.
IsProvenance(c) == c \in {SourceFileColumn, SourceSheetColumn}

IsAggregate(c) == \E r \in 2..Len(Required) : c = Required[r] \o EntriesSuffix

\* C20: the master table's columns are the base sheet's data columns, the
\* identifier column among them, then exactly one aggregate column for each
\* non-base sheet, then the provenance columns: no provenance column stands
\* before an aggregate column.
C20_MasterColumnOrder ==
    MasterBuilt =>
        LET cols == Master.cols
            prov == {i \in 1..Len(cols) : IsProvenance(cols[i])}
            agg == {i \in 1..Len(cols) : IsAggregate(cols[i])}
            data == (1..Len(cols)) \ (prov \cup agg)
        IN  /\ find_sesa_idx(cols) \in data
            /\ \A r \in 2..Len(Required) :
                  Cardinality({i \in agg : cols[i] = Required[r] \o EntriesSuffix}) = 1
            /\ \A d \in data, a \in agg : d < a
            /\ \A a \in agg, p \in prov : a < p

\* A master table with base columns, aggregate columns and provenance columns.
C20_Witness ==
    /\ MasterBuilt /\ phase = "Done"
    /\ \E i, j, k \in 1..Len(Master.cols) :
          /\ IsProvenance(Master.cols[i]) /\ IsAggregate(Master.cols[j])
          /\ ~IsProvenance(Master.cols[k]) /\ ~IsAggregate(Master.cols[k])

(***************************************************************************)
(* Claims about the aggregate cells, the rows and the header counts        *)
(***************************************************************************)
\* A topic sheet as a file holds it: its named columns, the identifier's
\* position, and the lines under the header that are not blank.
TopicCols(ws) == TrimmedCols(extract_headers(ws, 1))

TopicLines(ws) == {q \in 2..Len(ws) : AnyTruthy(ws[q])}

\* The normalized value line q has in column j.
TopicValue(ws, q, j) ==
    Strip(clean_cell_value(IF j <= Len(ws[q]) THEN ws[q][j] ELSE NoneVal))

\* The composite entry of line q: its non-empty data values but the
\* identifier, joined by the bar separator.
CompositeEntry(ws, q) ==
    LET cols == TopicCols(ws)
        si == find_sesa_idx(cols)
        vals == [j \in 1..Len(cols) |-> IF j = si THEN <<>> ELSE TopicValue(ws, q, j)]
    IN  Join(SelectSeq(vals, LAMBDA v : v # <<>>), EntrySep)

\* The entries the selected files hold for identifier sesa in topic sheet r.
EntriesOf(sesa, r) ==
    UNION {LET ws == SheetOf(files[k].book, Required[r])
               si == find_sesa_idx(TopicCols(ws))
           IN  {CompositeEntry(ws, q) :
                   q \in {p \in TopicLines(ws) : si # 0 /\ TopicValue(ws, p, si) = sesa}}
           : k \in 1..Len(files)} \ {<<>>}

\* C21: in every master row, the cell of each topic sheet's aggregate column
\* holds the distinct composite entries of the sheet's lines that carry the
\* row's identifier, sorted and joined by "; "; it is empty when there is none.
C21_AggregateCells ==
    MasterBuilt =>
        \A n \in 1..Len(Master.rows), r \in 2..Len(Required) :
            \A i \in 1..Len(Master.cols) :
                Master.cols[i] = Required[r] \o EntriesSuffix
                    => Master.rows[n][i]
                         = Join(SortTokens(SetToSeq(EntriesOf(MasterIdAt(n), r))), EntriesSep)

\* A master cell that joins two distinct entries of one identifier.
C21_Witness ==
    /\ MasterBuilt /\ phase = "Done"
    /\ \E n \in 1..Len(Master.rows), r \in 2..Len(Required) :
          Cardinality(EntriesOf(MasterIdAt(n), r)) >= 2

\* File k of a standard or normal run has fewer rows than the run's header
\* count, and the file loop has opened it.
ShortSheet(k) ==
    /\ mode # "community" /\ k <= Scanned
    /\ files[k].fault # "load" /\ Len(files[k].ws) < RunHeaderCount

\* The file loop ended the run on file k.
StoppedAt(k) ==
    /\ phase = "Failed" /\ Scanned = k /\ ~bucket_data_payload.set
    /\ error \in {"Exception", "ColumnMismatchError"}

\* C22: a scanned sheet with fewer rows than the header count raises nothing
\* and leaves no trace: no bucket lists its file (so it created none), no
\* bucket row carries its name, and the loop goes on to the next file, in
\* standard mode too.
C22_ShortSheetSkipped ==
    \A k \in 1..Len(files) :
        ShortSheet(k) =>
            /\ BucketsListing(k) = {}
            /\ \A b \in 1..Len(buckets) : RowsFrom(b, k) = 0
            /\ ~StoppedAt(k)

\* A short sheet was scanned in standard mode and the next file was read.
C22_Witness ==
    /\ mode = "standard" /\ ShortSheet(1) /\ Scanned = 2 /\ Len(buckets) = 1
    /\ BucketsListing(1) = {}

\* A row of a standard or normal table has a data cell that is not empty;
\* its last field is the file name.
HasData(r) == \E i \in 1..(Len(r) - 1) : r[i] # <<>>

\* The lines of accepted file k under the header rows that have a cell, among
\* those of the signature's columns, which is not empty once normalized; and
\* the distinct rows they make.
DataLines(k) ==
    LET f == files[k]
        n_cols == Len(SigOf(f, RunHeaderCount))
    IN  {q \in (RunHeaderCount + 1)..Len(f.ws) : HasData(RowData(f.ws[q], n_cols, f.name))}
DataRows(k) ==
    {RowData(files[k].ws[q], Len(SigOf(files[k], RunHeaderCount)), files[k].name) :
        q \in DataLines(k)}

DataRowsFrom(b, k) ==
    Len(SelectSeq(buckets[b].rows, LAMBDA r : r[Len(r)] = files[k].name /\ HasData(r)))

\* C23: no row of a bucket or of a rendered table of standard or normal mode
\* has only empty data cells, and after Scanning the bucket of every accepted
\* file holds a row for each distinct line of the file that has a non-empty
\* normalized data cell.
C23_NoBlankRows ==
    mode # "community" =>
        /\ \A b \in 1..Len(buckets) : \A n \in 1..Len(buckets[b].rows) :
              HasData(buckets[b].rows[n])
        /\ \A t \in 1..Len(rendered) : \A n \in 1..Len(rendered[t].rows) :
              HasData(rendered[t].rows[n])
        /\ ScanDone =>
              \A k \in Accepted : \A b \in BucketsListing(k) :
                  DataRowsFrom(b, k) >= Cardinality(DataRows(k))

\* A run reached Done on a file with a line of empty cells and lines of data.
C23_Witness ==
    /\ mode # "community" /\ phase = "Done" /\ rendered # <<>>
    /\ \E k \in Accepted :
          /\ DataLines(k) # {}
          /\ \E q \in (RunHeaderCount + 1)..Len(files[k].ws) : q \notin DataLines(k)

\* No header contains the target fragment, letter case set aside.
NoHeaderHas(headers, target) ==
    \A i \in 1..Len(headers) : ~Contains(Lower(headers[i]), Lower(target))

\* r[col_idx] exists in every row (an IndexError otherwise).
CellsInRange(rows, headers, target) ==
    \A k \in 1..Len(rows) : TargetColumn(headers, target) <= Len(rows[k])

\* The worker has left the file loop with buckets and is about to run the
\* canonicalizer over them; finalize_export ends with rebuilt tables.
AfterFileLoop ==
    /\ phase = "Scanning" /\ mode # "community" /\ idx > Len(files)
    /\ buckets # <<>> /\ ~bucket_data_payload.set /\ is_fuzzy
Finalized == phase = "Finalizing" /\ phase' = "Done" /\ is_fuzzy

\* C24: with the canonicalizer switched on, the step after the file loop always
\* stores the payload and hands prompt_table_names to the UI without an error,
\* every cell the canonicalizer reads exists, and a bucket none of whose
\* headers contains the target fragment keeps its rows as they were; likewise
\* a table rebuilt in Finalizing without such a header holds the re-read rows
\* unchanged.
C24_NoTargetNoChange ==
    [][ /\ AfterFileLoop =>
              /\ bucket_data_payload'.set /\ phase' = "Scanning" /\ error' = error
              /\ uiQueue' = Append(uiQueue, "prompt_table_names")
              /\ \A b \in 1..Len(buckets) :
                    /\ CellsInRange(buckets[b].rows, buckets[b].cols, fuzzy_col)
                    /\ NoHeaderHas(buckets[b].cols, fuzzy_col)
                          => buckets'[b].rows = buckets[b].rows
        /\ Finalized =>
              \A t \in 1..Len(rendered') :
                  LET read == RereadTable(files, named_buckets[t])
                  IN  /\ CellsInRange(read.rows, read.cols, fuzzy_col)
                      /\ NoHeaderHas(read.cols, fuzzy_col) => rendered'[t].rows = read.rows
      ]_vars

\* A run with the canonicalizer on ended Done on a table without the target
\* column that holds two values a merge would join.
C24_Witness ==
    /\ is_fuzzy /\ mode # "community" /\ phase = "Done"
    /\ \E t \in 1..Len(rendered) :
          /\ NoHeaderHas(rendered[t].cols, fuzzy_col)
          /\ Len(rendered[t].rows) >= 2

\* The header counts the dialog or the direct branch handed to Finalizing
\* (template mode has no Finalizing).
FinalHeaderCounts ==
    IF mode = "community" THEN {}
    ELSE {FinalHeaderCount(named_buckets[t]) : t \in 1..Len(named_buckets)}

\* C25: once a file of a standard or normal run has been opened, the header
\* count of the scan lies in 1..5 and is 1 in standard mode, and every header
\* count handed to Finalizing lies in 1..5.  (Template mode reads its headers
\* with the count 1 written in the code.)
C25_HeaderCountInRange ==
    /\ (mode # "community" /\ Scanned >= 1) =>
          /\ RunHeaderCount \in HeaderMenu
          /\ mode = "standard" => RunHeaderCount = 1
    /\ FinalHeaderCounts \subseteq HeaderMenu

\* A run of normal mode whose entry was emptied or set to zero scanned with
\* one header row and finished.
C25_Witness ==
    /\ mode = "normal" /\ skip_rows \in {<<>>, <<"0">>} /\ RunHeaderCount = 1
    /\ phase = "Done" /\ FinalHeaderCounts = {1}

\* Positions i < j of unique_vals: the value at i is its own canonical form
\* and scans the longer ones, the value at j is no brand value.
Scans(i) ==
    /\ ~IsBrand(Lower(fvals[i])) /\ Len(fvals[i]) >= 2
    /\ fmapping[fvals[i]] = fvals[i]
PrefixPair(i, j) ==
    /\ i < j /\ Scans(i) /\ ~IsBrand(Lower(fvals[j]))
    /\ StartsWith(Lower(fvals[j]), Lower(fvals[i]))
ShortOfFloor(s, l) == 10 * Len(s) < 6 * Len(l)

\* C26: after a run of the canonicalizer, a value l that is no brand value is
\* never mapped to another value s that is no longer than l, is no prefix of l
\* (letter case set aside) and has less than 0.6 of l's length; and a value l
\* that starts with a scanning value s is merged whatever the ratio of their
\* lengths, into s unless an earlier value took it first.
C26_LengthFloor ==
    fpc = 1 /\ FuzzyCol # 0 =>
        /\ \A s, l \in DOMAIN fmapping :
              ( /\ s # l /\ Len(s) <= Len(l) /\ ~IsBrand(Lower(l))
                /\ ~StartsWith(Lower(l), Lower(s))
                /\ ShortOfFloor(s, l) ) => fmapping[l] # s
        /\ \A i, j \in 1..Len(fvals) :
              PrefixPair(i, j) => \E k \in 1..i : fmapping[fvals[j]] = fvals[k]

\* At threshold 0.5 a pair scoring above 50 with a length ratio of 4/7 stayed
\* apart, and in the same run a prefix pair of length ratio 1/2 was merged.
C26_Witness ==
    /\ fpc = 1 /\ FuzzyCol # 0 /\ fthr = 50
    /\ \E i, j \in 1..Len(fvals) :
         /\ i < j /\ Scans(i)
         /\ fvals[i] = <<"g","g","g","g">> /\ fvals[j] = <<"h","g","g","g","g","h","h">>
         /\ ScoreNum(fvals[i], fvals[j]) >= fthr * ScoreDen(fvals[i], fvals[j])
         /\ fmapping[fvals[j]] = fvals[j]
    /\ \E i, j \in 1..Len(fvals) :
         /\ PrefixPair(i, j) /\ ShortOfFloor(fvals[i], fvals[j])
         /\ fmapping[fvals[j]] = fvals[i]

\* Every row of a table has one field per column and extra more.
RowsFit(t, extra) == \A n \in 1..Len(t.rows) : Len(t.rows[n]) = Len(t.cols) + extra

\* C27: every row of a bucket and of a rebuilt table has one cell per column
\* of the table and the file name; every row of a template table and of the
\* master table has one cell per column (the column list of these tables
\* holds the two provenance columns).
C27_RowsFitColumns ==
    /\ mode # "community" =>
          /\ \A b \in 1..Len(buckets) : RowsFit(buckets[b], 1)
          /\ \A t \in 1..Len(rendered) : RowsFit(rendered[t], 1)
    /\ mode = "community" =>
          \A t \in 1..Len(tables_by_sheet) : RowsFit(tables_by_sheet[t], 0)

\* A master table was built from two templates.
C27_Witness ==
    /\ MasterBuilt /\ Len(files) = 2 /\ Len(Master.rows) >= 2
    /\ RowsFit(Master, 0)

\* Finalizing was entered without the dialog: the one named bucket carries no
\* header count of its own.
NamedDirectly ==
    /\ mode # "community" /\ Len(named_buckets) = 1
    /\ named_buckets[1].header_rows = <<>>

\* The lines of file k that are data rows under header count h, and the rows
\* of a table that come from file k.
LinesUnder(k, h) == {q \in (h + 1)..Len(files[k].ws) : AnyTruthy(files[k].ws[q])}
TableRowsFrom(t, k) == Len(SelectSeq(t.rows, LAMBDA r : r[Len(r)] = files[k].name))

\* C28: when a run that asked no name has ended Done, Finalizing read with
\* the header count of the scan, the rendered table has the column list of
\* the bucket, and it holds one row for each line of each of the bucket's
\* files that the scan took as a data row.
C28_SameHeaderCount ==
    (NamedDirectly /\ phase = "Done") =>
        /\ FinalHeaderCount(named_buckets[1]) = RunHeaderCount
        /\ rendered[1].cols = named_buckets[1].cols
        /\ \A k \in 1..Len(files) :
              TableRowsFrom(rendered[1], k)
                = IF BucketsListing(k) = {} THEN 0
                  ELSE Cardinality(LinesUnder(k, RunHeaderCount))

\* A run of normal mode with one header row and one bucket of two files ended
\* Done without the dialog.
C28_Witness ==
    /\ NamedDirectly /\ phase = "Done" /\ mode = "normal" /\ RunHeaderCount = 1
    /\ Len(named_buckets[1].files) = 2 /\ Len(rendered[1].rows) >= 2

\* The scan of file k raised: load_workbook failed, or the row iteration
\* failed after the file had given a signature.
RaisedInScan(k) ==
    /\ k <= Scanned
    /\ \/ files[k].fault = "load"
       \/ files[k].fault = "rows" /\ ReachesSig(files[k], RunHeaderCount)
RereadOf(k) == SelectSeq(Reread, LAMBDA r : r.file = files[k].name)

\* C29: in normal mode a file whose scan raised is listed in no bucket (so it
\* created none), is not opened again in Finalizing and has no row in a
\* rendered table.
C29_SkippedFileLeavesNoTrace ==
    mode = "normal" =>
        \A k \in 1..Len(files) :
            RaisedInScan(k) =>
                /\ BucketsListing(k) = {}
                /\ RereadOf(k) = <<>>
                /\ \A t \in 1..Len(rendered) : TableRowsFrom(rendered[t], k) = 0

\* A run of normal mode ended Done after a file that could not be opened was
\* skipped.
C29_Witness ==
    /\ mode = "normal" /\ phase = "Done" /\ rendered # <<>>
    /\ \E k \in 1..Len(files) : RaisedInScan(k) /\ files[k].fault = "load"

\* A run is in flight: its worker is scanning, its dialog is open, it is
\* finalizing, or a callback of it waits in the event loop.
InFlight == phase \in {"Scanning", "AwaitingNaming", "Finalizing"} \/ uiQueue # <<>>

\* A step that starts a worker, and a step that changes a stored payload.
WorkerStarts == phase' = "Scanning" /\ (phase # "Scanning" \/ idx' < idx)
PayloadLost == bucket_data_payload.set /\ bucket_data_payload' # bucket_data_payload

\* C30: while a run is in flight the run button is disabled; a worker is
\* started only when no run is in flight; and a stored payload changes only
\* after its run has reached Done or Failed with nothing left in the event
\* loop.
C30_OneRunInFlight ==
    /\ [](InFlight => runBtn = "disabled")
    /\ [][ /\ WorkerStarts => ~InFlight /\ runBtn = "normal"
           /\ PayloadLost => ~InFlight /\ phase \in {"Done", "Failed"}
       ]_vars

\* A second run (an earlier one left a workbook open) waits in the naming
\* dialog after a rejected answer, the button disabled.
C30_Witness ==
    /\ open_wbs # {} /\ phase = "AwaitingNaming" /\ last_warning # "none"
    /\ bucket_data_payload.set /\ runBtn = "disabled"

(***************************************************************************)
(* Specification SpecClean: clean_cell_value applied twice                 *)
(***************************************************************************)
MaxCellLen == 5

CellAlphabet == {SP, NBSP, NL, "#", "N", "/", "A"}

RawCells ==
    {NoneVal, IntCell(0), IntCell(42), DateCell(2025, 1, 9), DateCell(1999, 12, 31)}
    \cup {TextCell(s) : s \in SeqsUpTo(CellAlphabet, MaxCellLen)}

CleanInit == val \in RawCells /\ out1 = <<>> /\ out2 = <<>> /\ cpc = 0 /\ SigIdle /\ FuzzyIdle /\ RunIdle /\ RowsIdle

CleanFirst ==
    /\ cpc = 0
    /\ out1' = clean_cell_value(val)
    /\ cpc' = 1
    /\ UNCHANGED <<val, out2, notCleanVars>>

CleanSecond ==
    /\ cpc = 1
    /\ out2' = clean_cell_value(TextCell(out1))
    /\ cpc' = 2
    /\ UNCHANGED <<val, out1, notCleanVars>>

CleanNext == CleanFirst \/ CleanSecond

SpecClean == CleanInit /\ [][CleanNext]_vars

\* C9: cell normalization is idempotent: normalizing the normalized value of
\* any raw cell (empty, padded text, text with non-breaking spaces or
\* newlines, an error sentinel, a number, a date) gives the same string.
C9_NormalizeIdempotent == cpc = 2 => out2 = out1

\* C9 witness: an error sentinel behind a non-breaking space was normalized to
\* the empty string, and that result was normalized again.
C9_Witness ==
    /\ cpc = 2
    /\ val.t = "str"
    /\ val.s = <<NBSP, "#", "N", "/", "A">>
    /\ out1 = <<>>

=============================================================================
